---------------------------- MODULE Spec2Model ----------------------------
(***************************************************************************)
(* Risk and scenario analytics of the wealth-management server             *)
(* (advanced analytics: attribution metrics, Monte Carlo simulation,       *)
(* stress tests, factor analysis).                                         *)
(*                                                                         *)
(* Every quantity of the source is a JavaScript number, i.e. a binary      *)
(* floating-point value with round-to-nearest, ties-to-even arithmetic and *)
(* the special values NaN, +Infinity and -Infinity.  The model keeps this  *)
(* arithmetic: a number is a record [k, m, e]; a finite number is m * 2^e  *)
(* with a normalised mantissa of Prec bits (JavaScript: 53 bits), and each *)
(* operator rounds its exact result to Prec bits.  The exponent range is   *)
(* not bounded (no overflow to Infinity, no subnormals) and -0 is          *)
(* identified with +0.  Prec = 13 rounds the decimal literals n/100 in the *)
(* direction 53 bits do: their binary expansions have a period dividing 20 *)
(* and 53 - 13 = 40.                                                       *)
(***************************************************************************)
EXTENDS Integers, Sequences, FiniteSets, TLC

\* Mantissa width of the model's numbers.
Prec == 13

----------------------------------------------------------------------------
(* JavaScript numbers *)

Fin(m, e) == [k |-> "fin", m |-> m, e |-> e]

Zero == Fin(0, 0)

NaN == [k |-> "nan", m |-> 0, e |-> 0]

PosInf == [k |-> "inf", m |-> 1, e |-> 0]

NegInf == [k |-> "inf", m |-> -1, e |-> 0]

Abs(x) == IF x < 0 THEN -x ELSE x

Sgn(x) == IF x < 0 THEN -1 ELSE IF x > 0 THEN 1 ELSE 0

RECURSIVE BitLen(_)
BitLen(x) == IF x = 0 THEN 0 ELSE 1 + BitLen(x \div 2)

\* The number nearest to mant * 2^exp (ties to the even mantissa).
RoundMant(mant, exp) ==
  IF mant = 0 THEN Zero
  ELSE LET a == Abs(mant)
           L == BitLen(a)
       IN IF L <= Prec
          THEN Fin(mant * 2^(Prec - L), exp - (Prec - L))
          ELSE LET s    == L - Prec
                   q    == a \div 2^s
                   r    == a % 2^s
                   half == 2^(s - 1)
                   up   == r > half \/ (r = half /\ q % 2 = 1)
                   q2   == IF up THEN q + 1 ELSE q
               IN IF q2 = 2^Prec
                  THEN Fin(Sgn(mant) * 2^(Prec - 1), exp + s + 1)
                  ELSE Fin(Sgn(mant) * q2, exp + s)

FromInt(n) == RoundMant(n, 0)

FNeg(a) == IF a.k = "nan" THEN NaN ELSE [a EXCEPT !.m = -a.m]

\* a + b
FAdd(a, b) ==
  IF a.k = "nan" \/ b.k = "nan" THEN NaN
  ELSE IF a.k = "inf" /\ b.k = "inf" THEN (IF a.m = b.m THEN a ELSE NaN)
  ELSE IF a.k = "inf" THEN a
  ELSE IF b.k = "inf" THEN b
  ELSE IF a.m = 0 THEN b
  ELSE IF b.m = 0 THEN a
  ELSE LET hi == IF a.e >= b.e THEN a ELSE b
           lo == IF a.e >= b.e THEN b ELSE a
           d  == hi.e - lo.e
       IN IF d >= Prec + 2 THEN hi
          ELSE RoundMant(hi.m * 2^d + lo.m, lo.e)

\* a - b
FSub(a, b) == FAdd(a, FNeg(b))

\* a * b
FMul(a, b) ==
  IF a.k = "nan" \/ b.k = "nan" THEN NaN
  ELSE IF a.k = "inf" \/ b.k = "inf"
       THEN (IF a.m = 0 \/ b.m = 0 THEN NaN
             ELSE IF Sgn(a.m) = Sgn(b.m) THEN PosInf ELSE NegInf)
  ELSE RoundMant(a.m * b.m, a.e + b.e)

\* a / b
FDiv(a, b) ==
  IF a.k = "nan" \/ b.k = "nan" THEN NaN
  ELSE IF a.k = "inf"
       THEN (IF b.k = "inf" THEN NaN
             ELSE IF Sgn(a.m) * (IF b.m < 0 THEN -1 ELSE 1) > 0 THEN PosInf ELSE NegInf)
  ELSE IF b.k = "inf" THEN Zero
  ELSE IF b.m = 0
       THEN (IF a.m = 0 THEN NaN ELSE IF a.m > 0 THEN PosInf ELSE NegInf)
  ELSE IF a.m = 0 THEN Zero
  ELSE LET n      == Abs(a.m) * 2^(Prec + 2)
           q      == n \div Abs(b.m)
           sticky == IF n % Abs(b.m) = 0 THEN 0 ELSE 1
       IN RoundMant(Sgn(a.m) * Sgn(b.m) * (2 * q + sticky), a.e - b.e - (Prec + 3))

RECURSIVE ISqrtIn(_, _, _)
\* The largest s in lo..hi with s * s <= n.
ISqrtIn(lo, hi, n) ==
  IF lo = hi THEN lo
  ELSE LET mid == (lo + hi + 1) \div 2
       IN IF mid * mid <= n THEN ISqrtIn(mid, hi, n) ELSE ISqrtIn(lo, mid - 1, n)

\* Math.sqrt(a)
MathSqrt(a) ==
  IF a.k = "nan" THEN NaN
  ELSE IF a.m < 0 THEN NaN
  ELSE IF a.k = "inf" THEN PosInf
  ELSE IF a.m = 0 THEN Zero
  ELSE LET sh     == IF (a.e - (Prec + 1)) % 2 = 0 THEN Prec + 1 ELSE Prec + 2
           n      == a.m * 2^sh
           s      == ISqrtIn(0, 2^(Prec + 1), n)
           sticky == IF s * s = n THEN 0 ELSE 1
       IN RoundMant(2 * s + sticky, ((a.e - sh) \div 2) - 1)

\* a > b
FGt(a, b) == LET d == FSub(a, b) IN d.k # "nan" /\ d.m > 0

\* a < b
FLt(a, b) == FGt(b, a)

\* a <= b
FLe(a, b) == a.k # "nan" /\ b.k # "nan" /\ (a = b \/ FGt(b, a))

\* Math.round(a): the nearest integer, ties towards +Infinity.
MathRound(a) ==
  IF a.k # "fin" THEN a
  ELSE IF a.e >= 0 THEN a
  ELSE IF -a.e >= Prec + 1 THEN Zero
  ELSE RoundMant((a.m + 2^(-a.e - 1)) \div 2^(-a.e), 0)

\* Math.floor(a) of a finite number, as an integer.
FloorInt(a) ==
  IF a.e >= 0 THEN a.m * 2^a.e
  ELSE IF -a.e >= Prec + 1 THEN (IF a.m < 0 THEN -1 ELSE 0)
  ELSE a.m \div 2^(-a.e)

\* The numeric literal n/d of the source text (n, d small integers).
Lit(n, d) == FDiv(FromInt(n), FromInt(d))


----------------------------------------------------------------------------
(* Attribution analysis: calculateAttributionMetrics *)

\* arr[i] of a JavaScript array (1-based here); a missing element is
\* undefined, which every arithmetic operator turns into NaN.
At(arr, i) == IF i \in 1..Len(arr) THEN arr[i] ELSE NaN

RECURSIVE SumFirst(_, _)
\* arr.reduce((sum, r) => sum + r, 0) over the first k elements
SumFirst(arr, k) ==
  IF k = 0 THEN Zero ELSE FAdd(SumFirst(arr, k - 1), arr[k])

\* arr.reduce((sum, r) => sum + r, 0)
SumOf(arr) == SumFirst(arr, Len(arr))

\* Math.pow(x, 2)
Pow2(x) == FMul(x, x)

RECURSIVE SumSquaredDeviations(_, _, _)
\* arr.reduce((sum, r) => sum + Math.pow(r - avg, 2), 0) over the first k
\* elements
SumSquaredDeviations(arr, avg, k) ==
  IF k = 0 THEN Zero
  ELSE FAdd(SumSquaredDeviations(arr, avg, k - 1), Pow2(FSub(arr[k], avg)))

RECURSIVE SumSquares(_, _)
\* arr.reduce((sum, r) => sum + Math.pow(r, 2), 0) over the first k elements
SumSquares(arr, k) ==
  IF k = 0 THEN Zero ELSE FAdd(SumSquares(arr, k - 1), Pow2(arr[k]))

RECURSIVE SumProducts(_, _, _, _, _)
\* p.reduce((sum, r, i) => sum + (r - avgP) * (b[i] - avgB), 0) over the
\* first k elements
SumProducts(p, b, avgP, avgB, k) ==
  IF k = 0 THEN Zero
  ELSE FAdd(SumProducts(p, b, avgP, avgB, k - 1),
            FMul(FSub(p[k], avgP), FSub(At(b, k), avgB)))

RECURSIVE SumSquaredDifferences(_, _, _)
\* p.reduce((sum, r, i) => sum + Math.pow(r - b[i], 2), 0) over the first k
\* elements
SumSquaredDifferences(p, b, k) ==
  IF k = 0 THEN Zero
  ELSE FAdd(SumSquaredDifferences(p, b, k - 1), Pow2(FSub(p[k], At(b, k))))

\* arr.filter(r => r < 0)
RECURSIVE FilterNegative(_)
FilterNegative(arr) ==
  IF arr = << >> THEN << >>
  ELSE IF FLt(Head(arr), Zero) THEN <<Head(arr)>> \o FilterNegative(Tail(arr))
       ELSE FilterNegative(Tail(arr))

\* Math.round(x * scale) / 100
RoundTo(x, scale) == FDiv(MathRound(FMul(x, FromInt(scale))), FromInt(100))

\* The result returned for an empty portfolioReturns.
EmptyMetrics ==
  [sharpeRatio |-> Zero, sortinoRatio |-> Zero, alpha |-> Zero, beta |-> Zero,
   informationRatio |-> Zero, maxDrawdown |-> Zero, calmarRatio |-> Zero,
   volatility |-> Zero, returns |-> Zero]

\* riskFreeRate / 252, the per-period rate the function subtracts.
DailyRiskFree(riskFreeRate) == FDiv(riskFreeRate, FromInt(252))

\* avgPortfolioReturn
AvgPortfolioReturn(p) == FDiv(SumOf(p), FromInt(Len(p)))

\* avgBenchmarkReturn: the sum of all of benchmarkReturns over n = Len(p)
AvgBenchmarkReturn(p, b) == FDiv(SumOf(b), FromInt(Len(p)))

\* variance of portfolioReturns (population)
Variance(p) ==
  FDiv(SumSquaredDeviations(p, AvgPortfolioReturn(p), Len(p)), FromInt(Len(p)))

Volatility(p) == MathSqrt(Variance(p))

ExcessReturn(p, riskFreeRate) == FSub(AvgPortfolioReturn(p), DailyRiskFree(riskFreeRate))

SharpeRatio(p, riskFreeRate) ==
  LET volatility == Volatility(p)
  IN IF FGt(volatility, Zero)
     THEN FDiv(ExcessReturn(p, riskFreeRate), volatility)
     ELSE Zero

\* Mutation of DownsideVariance: the mean is taken over n.
DownsideVarianceOverN(p) ==
  LET downsideReturns == FilterNegative(p)
  IN IF Len(downsideReturns) > 0
     THEN FDiv(SumSquares(downsideReturns, Len(downsideReturns)), FromInt(Len(p)))
     ELSE Zero

DownsideVariance(p) ==
  LET downsideReturns == FilterNegative(p)
  IN IF Len(downsideReturns) > 0
     THEN FDiv(SumSquares(downsideReturns, Len(downsideReturns)),
               FromInt(Len(downsideReturns)))
     ELSE Zero

SortinoRatio(p, riskFreeRate) ==
  LET downsideDeviation == MathSqrt(DownsideVariance(p))
  IN IF FGt(downsideDeviation, Zero)
     THEN FDiv(ExcessReturn(p, riskFreeRate), downsideDeviation)
     ELSE Zero

BenchmarkVariance(p, b) ==
  FDiv(SumSquaredDeviations(b, AvgBenchmarkReturn(p, b), Len(b)), FromInt(Len(p)))

Covariance(p, b) ==
  FDiv(SumProducts(p, b, AvgPortfolioReturn(p), AvgBenchmarkReturn(p, b), Len(p)),
       FromInt(Len(p)))

Beta(p, b) ==
  LET benchmarkVariance == BenchmarkVariance(p, b)
  IN IF FGt(benchmarkVariance, Zero)
     THEN FDiv(Covariance(p, b), benchmarkVariance)
     ELSE FromInt(1)

Alpha(p, b, riskFreeRate) ==
  FSub(AvgPortfolioReturn(p),
       FAdd(DailyRiskFree(riskFreeRate),
            FMul(Beta(p, b),
                 FSub(AvgBenchmarkReturn(p, b), DailyRiskFree(riskFreeRate)))))

TrackingError(p, b) ==
  MathSqrt(FDiv(SumSquaredDifferences(p, b, Len(p)), FromInt(Len(p))))

\* Mutation of InformationRatio: the quotient is taken whatever the tracking
\* error is.
InformationRatioUnguarded(p, b) ==
  FDiv(FSub(AvgPortfolioReturn(p), AvgBenchmarkReturn(p, b)), TrackingError(p, b))

InformationRatio(p, b) ==
  LET trackingError == TrackingError(p, b)
  IN IF FGt(trackingError, Zero)
     THEN FDiv(FSub(AvgPortfolioReturn(p), AvgBenchmarkReturn(p, b)), trackingError)
     ELSE Zero

\* Mutation of DrawdownStep: the peak comparison is reversed.
DrawdownStepPeakReversed(st, r) ==
  LET cumulativeReturn == FMul(st.cumulativeReturn, FAdd(FromInt(1), r))
      peak     == IF FLt(cumulativeReturn, st.peak) THEN cumulativeReturn ELSE st.peak
      drawdown == FDiv(FSub(peak, cumulativeReturn), peak)
  IN [peak |-> peak,
      maxDrawdown |-> IF FGt(drawdown, st.maxDrawdown) THEN drawdown ELSE st.maxDrawdown,
      cumulativeReturn |-> cumulativeReturn]

\* One iteration of the max-drawdown loop on return r; st = [peak,
\* maxDrawdown, cumulativeReturn] before it, the result after it.  The peak
\* of the result is the value the iteration divided by.
DrawdownStep(st, r) ==
  LET cumulativeReturn == FMul(st.cumulativeReturn, FAdd(FromInt(1), r))
      peak     == IF FGt(cumulativeReturn, st.peak) THEN cumulativeReturn ELSE st.peak
      drawdown == FDiv(FSub(peak, cumulativeReturn), peak)
  IN [peak |-> peak,
      maxDrawdown |-> IF FGt(drawdown, st.maxDrawdown) THEN drawdown ELSE st.maxDrawdown,
      cumulativeReturn |-> cumulativeReturn]

\* let peak = 0; let maxDrawdown = 0; let cumulativeReturn = 1
DrawdownStart == [peak |-> Zero, maxDrawdown |-> Zero, cumulativeReturn |-> FromInt(1)]

RECURSIVE DrawdownWalkFrom(_, _, _)
\* The loop states after each of the first k iterations over p when the loop
\* variables start as st: a sequence of k + 1 records, st first.
DrawdownWalkFrom(st, p, k) ==
  IF k = 0 THEN <<st>>
  ELSE LET w == DrawdownWalkFrom(st, p, k - 1)
       IN Append(w, DrawdownStep(w[k], p[k]))

\* The loop states of the max-drawdown loop of the function.
DrawdownWalk(p, k) == DrawdownWalkFrom(DrawdownStart, p, k)

\* maxDrawdown when the loop is over (a fraction)
MaxDrawdown(p) == DrawdownWalk(p, Len(p))[Len(p) + 1].maxDrawdown

AnnualizedReturn(p) == FMul(AvgPortfolioReturn(p), FromInt(252))

CalmarRatio(p) ==
  LET maxDrawdown == MaxDrawdown(p)
  IN IF FGt(maxDrawdown, Zero) THEN FDiv(AnnualizedReturn(p), maxDrawdown) ELSE Zero

\* The return statement of the non-empty case.
ComputedMetrics(p, b, riskFreeRate) ==
  [sharpeRatio      |-> RoundTo(SharpeRatio(p, riskFreeRate), 100),
   sortinoRatio     |-> RoundTo(SortinoRatio(p, riskFreeRate), 100),
   alpha            |-> RoundTo(Alpha(p, b, riskFreeRate), 10000),
   beta             |-> RoundTo(Beta(p, b), 100),
   informationRatio |-> RoundTo(InformationRatio(p, b), 100),
   maxDrawdown      |-> RoundTo(MaxDrawdown(p), 10000),
   calmarRatio      |-> RoundTo(CalmarRatio(p), 100),
   volatility       |-> RoundTo(Volatility(p), 10000),
   returns          |-> RoundTo(AnnualizedReturn(p), 10000)]

\* Mutation of calculateAttributionMetrics: the n === 0 guard is missing.
calculateAttributionMetricsUnguarded(p, b, riskFreeRate) ==
  ComputedMetrics(p, b, riskFreeRate)

calculateAttributionMetrics(p, b, riskFreeRate) ==
  IF Len(p) = 0 THEN EmptyMetrics ELSE ComputedMetrics(p, b, riskFreeRate)

----------------------------------------------------------------------------
(* Scenario analysis: runMonteCarloSimulation and generateNormalRandom *)

\* Math.PI
MathPI == Lit(314159265, 100000000)

\* The values Math.random() returns in the model: 0, the least value of
\* [0, 1), and 0.5.
UniformDraws == {Zero, Lit(1, 2)}

\* Math.log(u), for the values of UniformDraws.
MathLog(u) ==
  CASE u = Zero      -> NegInf
    [] u = Lit(1, 2) -> Lit(-693147, 1000000)

\* Math.cos(x), for x = 2.0 * Math.PI * u2 with u2 in UniformDraws.
MathCos(x) ==
  CASE x = Zero   -> FromInt(1)
    [] x = MathPI -> FromInt(-1)

\* generateNormalRandom(mean, stdDev) when the two calls of Math.random()
\* return u1 and u2.
generateNormalRandom(mean, stdDev, u1, u2) ==
  LET z0 == FMul(MathSqrt(FMul(FromInt(-2), MathLog(u1))),
                 MathCos(FMul(FMul(FromInt(2), MathPI), u2)))
  IN FAdd(mean, FMul(z0, stdDev))

\* Mutation of InnerLoopContinues: the loop runs once more.
InnerLoopContinuesInclusive(year, timeHorizon) == year <= timeHorizon

\* year < timeHorizon, the condition of the inner loop
InnerLoopContinues(year, timeHorizon) == year < timeHorizon

\* The comparator (a, b) => a - b, as Array.prototype.sort reads it: a NaN
\* result counts as 0.
CompareFn(a, b) ==
  LET d == FSub(a, b) IN IF d.k = "nan" THEN 0 ELSE Sgn(d.m)

RECURSIVE InsertSorted(_, _)
\* x put into the ascending sequence s, after the elements that compare
\* equal to it.
InsertSorted(s, x) ==
  IF s = << >> THEN <<x>>
  ELSE IF CompareFn(Head(s), x) > 0 THEN <<x>> \o s
       ELSE <<Head(s)>> \o InsertSorted(Tail(s), x)

RECURSIVE SortAscending(_)
\* The stable ascending sort of s under CompareFn.
SortAscending(s) ==
  IF s = << >> THEN << >>
  ELSE InsertSorted(SortAscending(SubSeq(s, 1, Len(s) - 1)), s[Len(s)])

\* CompareFn is a consistent comparator for the elements of s: being equal
\* under it is transitive (a NaN compares equal to everything).
ConsistentComparator(s) ==
  \A i, j, l \in 1..Len(s) :
    CompareFn(s[i], s[j]) = 0 /\ CompareFn(s[j], s[l]) = 0 => CompareFn(s[i], s[l]) = 0

\* The arrays results.sort((a, b) => a - b) can leave: the sorted array, or,
\* when the comparator is not consistent, an order the engine chooses.
SortOutcomes(s) ==
  IF ConsistentComparator(s) THEN {SortAscending(s)}
  ELSE {[i \in 1..Len(s) |-> s[f[i]]] : f \in Permutations(1..Len(s))}

\* Math.floor(simulations * n / 100), n / 100 being the literal 0.05, 0.25, ...
PercentileIndex(simulations, n) == FloorInt(FMul(FromInt(simulations), Lit(n, 100)))

\* The value of an element the array does not have.
Undefined == [k |-> "undefined", m |-> 0, e |-> 0]

\* results[idx], idx counted from 0
Element(results, idx) ==
  IF idx \in 0..(Len(results) - 1) THEN results[idx + 1] ELSE Undefined

Scenario(name, probability, expectedValue, results, p50) ==
  [scenario |-> name, probability |-> probability, expectedValue |-> expectedValue,
   worstCase |-> Element(results, 0), bestCase |-> Element(results, Len(results) - 1),
   median |-> p50]

\* What runMonteCarloSimulation returns once results is sorted.
Outcome(results, simulations) ==
  LET p5  == Element(results, PercentileIndex(simulations, 5))
      p25 == Element(results, PercentileIndex(simulations, 25))
      p50 == Element(results, PercentileIndex(simulations, 50))
      p75 == Element(results, PercentileIndex(simulations, 75))
      p95 == Element(results, PercentileIndex(simulations, 95))
  IN [scenarios |->
        <<Scenario("Bear Market (-30% crash)", 5, p5, results, p50),
          Scenario("Recession (-15%)", 15, p25, results, p50),
          Scenario("Base Case (Expected Return)", 60, p50, results, p50),
          Scenario("Bull Market (+20%)", 15, p75, results, p50),
          Scenario("Euphoria (+40%)", 5, p95, results, p50)>>,
      distribution |-> results,
      confidenceIntervals |-> [p5 |-> p5, p25 |-> p25, p50 |-> p50, p75 |-> p75, p95 |-> p95]]

----------------------------------------------------------------------------
(* Stress testing: runStressTests and calculateScenarioImpact *)

Categories == <<"stocks", "bonds", "gold", "cash", "alternatives">>

\* An object literal { stocks, bonds, gold, cash, alternatives } of integers.
Changes(stocks, bonds, gold, cash, alternatives) ==
  [stocks |-> FromInt(stocks), bonds |-> FromInt(bonds), gold |-> FromInt(gold),
   cash |-> FromInt(cash), alternatives |-> FromInt(alternatives)]

\* The changes of "2008 Financial Crisis".
FinancialCrisisChanges == Changes(-50, 5, 25, 0, -30)

\* The changes of "COVID-19 Crash (2020)".
CovidCrashChanges == Changes(-35, 10, 15, 0, -20)

\* The changes of "Dot-com Bubble (2000)".
DotComBubbleChanges == Changes(-45, 8, 10, 0, -40)

\* The changes of "Inflation Spike".
InflationSpikeChanges == Changes(-20, -15, 30, -10, 5)

\* allocation.stocks + allocation.bonds + allocation.gold + allocation.cash
\* + allocation.alternatives
TotalAllocation(allocation) ==
  FAdd(FAdd(FAdd(FAdd(allocation.stocks, allocation.bonds), allocation.gold),
            allocation.cash), allocation.alternatives)

\* (allocation[c] / totalAllocation) * changes[c]
WeightedChange(allocation, changes, totalAllocation, c) ==
  FMul(FDiv(allocation[c], totalAllocation), changes[c])

\* The sum impact of calculateScenarioImpact, added left to right.
Impact(allocation, changes, totalAllocation) ==
  FAdd(FAdd(FAdd(FAdd(WeightedChange(allocation, changes, totalAllocation, "stocks"),
                      WeightedChange(allocation, changes, totalAllocation, "bonds")),
                 WeightedChange(allocation, changes, totalAllocation, "gold")),
            WeightedChange(allocation, changes, totalAllocation, "cash")),
       WeightedChange(allocation, changes, totalAllocation, "alternatives"))

\* Mutation of calculateScenarioImpact: the totalAllocation === 0 guard is
\* missing.
calculateScenarioImpactUnguarded(allocation, changes) ==
  RoundTo(Impact(allocation, changes, TotalAllocation(allocation)), 100)

\* Mutation of calculateScenarioImpact: the weights are read as percentages
\* and not divided by their sum.
calculateScenarioImpactPercent(allocation, changes) ==
  IF TotalAllocation(allocation) = Zero THEN Zero
  ELSE RoundTo(Impact(allocation, changes, FromInt(100)), 100)

calculateScenarioImpact(allocation, changes) ==
  LET totalAllocation == TotalAllocation(allocation)
  IN IF totalAllocation = Zero THEN Zero
     ELSE RoundTo(Impact(allocation, changes, totalAllocation), 100)

\* An element of the array scenarios as the array literal builds it:
\* estimatedValue is 0.
StressScenario(name, description, portfolioImpact, recoveryTime) ==
  [scenario |-> name, description |-> description, portfolioImpact |-> portfolioImpact,
   estimatedValue |-> Zero, recoveryTime |-> recoveryTime]

\* Mutation of InitialScenarios: the impact of Currency Crisis is derived
\* from the allocation, like the other four.
InitialScenariosAllDerived(assetAllocation) ==
  <<StressScenario("2008 Financial Crisis", "Stocks -50%, Bonds +5%, Gold +25%",
                   calculateScenarioImpact(assetAllocation, FinancialCrisisChanges), 24),
    StressScenario("COVID-19 Crash (2020)", "Stocks -35%, Bonds +10%, Gold +15%",
                   calculateScenarioImpact(assetAllocation, CovidCrashChanges), 6),
    StressScenario("Dot-com Bubble (2000)", "Stocks -45%, Bonds +8%, Gold +10%",
                   calculateScenarioImpact(assetAllocation, DotComBubbleChanges), 36),
    StressScenario("Inflation Spike", "Stocks -20%, Bonds -15%, Gold +30%",
                   calculateScenarioImpact(assetAllocation, InflationSpikeChanges), 18),
    StressScenario("Currency Crisis", "INR depreciation -25%, Foreign assets +25%",
                   calculateScenarioImpact(assetAllocation, Changes(-15, -15, -15, -15, 25)),
                   12)>>

\* The array literal scenarios of runStressTests.
InitialScenarios(assetAllocation) ==
  <<StressScenario("2008 Financial Crisis", "Stocks -50%, Bonds +5%, Gold +25%",
                   calculateScenarioImpact(assetAllocation, FinancialCrisisChanges), 24),
    StressScenario("COVID-19 Crash (2020)", "Stocks -35%, Bonds +10%, Gold +15%",
                   calculateScenarioImpact(assetAllocation, CovidCrashChanges), 6),
    StressScenario("Dot-com Bubble (2000)", "Stocks -45%, Bonds +8%, Gold +10%",
                   calculateScenarioImpact(assetAllocation, DotComBubbleChanges), 36),
    StressScenario("Inflation Spike", "Stocks -20%, Bonds -15%, Gold +30%",
                   calculateScenarioImpact(assetAllocation, InflationSpikeChanges), 18),
    StressScenario("Currency Crisis", "INR depreciation -25%, Foreign assets +25%",
                   FromInt(-15), 12)>>

\* Math.round(currentPortfolioValue * (1 + scenario.portfolioImpact / 100))
EstimatedValue(currentPortfolioValue, portfolioImpact) ==
  MathRound(FMul(currentPortfolioValue,
                 FAdd(FromInt(1), FDiv(portfolioImpact, FromInt(100)))))

\* Mutation of HasNextScenario: the loop stops before the last element.
HasNextScenarioSkipsLast(index, scenarios) == index < Len(scenarios) - 1

\* for (const scenario of scenarios): the iterator has an element left.
HasNextScenario(index, scenarios) == index < Len(scenarios)

----------------------------------------------------------------------------
(* Factor analysis: performFactorAnalysis *)

FactorAttribution(factor, contribution, description) ==
  [factor |-> factor, contribution |-> contribution, description |-> description]

\* The array performFactorAnalysis returns.
FactorRows ==
  <<FactorAttribution("Market Beta", 65, "Exposure to overall market movements"),
    FactorAttribution("Size Factor", 10, "Small-cap vs large-cap exposure"),
    FactorAttribution("Value Factor", 15, "Value vs growth stock exposure"),
    FactorAttribution("Momentum Factor", 5, "Trending stocks exposure"),
    FactorAttribution("Alpha (Stock Selection)", 5, "Manager skill / stock picking")>>

\* Mutation of performFactorAnalysis: an empty portfolioReturns yields no
\* rows.
performFactorAnalysisEmptyGuard(portfolioReturns, factorReturns) ==
  IF Len(portfolioReturns) = 0 THEN << >> ELSE FactorRows

performFactorAnalysis(portfolioReturns, factorReturns) == FactorRows

----------------------------------------------------------------------------
(* Stock analysis: the eight lens scores and analyzeStock *)

\* a >= b
FGe(a, b) == FLe(b, a)

\* Math.min(a, b)
MathMin(a, b) ==
  IF a.k = "nan" \/ b.k = "nan" THEN NaN ELSE IF FLt(b, a) THEN b ELSE a

\* Math.max(a, b)
MathMax(a, b) ==
  IF a.k = "nan" \/ b.k = "nan" THEN NaN ELSE IF FGt(b, a) THEN b ELSE a

\* s.toLowerCase() of the sector names a data provider reports.
ToLowerCase(s) ==
  CASE s = "Pharma" -> "pharma"
    [] s = "Consumer" -> "consumer"
    [] s = "Technology" -> "technology"
    [] OTHER -> s

\* growthSectors of calculateJhunjhunwalaScore
GrowthSectors == {"financial_services", "consumer", "infrastructure", "pharma"}

\* Mutation of LensResult: the score is returned as accumulated, without
\* Math.min(10, Math.max(0, score)).
LensResultUnclamped(score, strong, middle, weak) ==
  [score |-> score,
   verdict |-> IF FGe(score, FromInt(7)) THEN strong
               ELSE IF FGe(score, FromInt(5)) THEN middle ELSE weak]

\* The last statements of every lens function: the score is clamped to
\* [0, 10] and the verdict follows from the clamped score.  (The reasoning
\* text, a concatenation of fixed sentences, is left out.)
LensResult(score, strong, middle, weak) ==
  LET finalScore == MathMin(FromInt(10), MathMax(Zero, score))
  IN [score |-> finalScore,
      verdict |-> IF FGe(finalScore, FromInt(7)) THEN strong
                  ELSE IF FGe(finalScore, FromInt(5)) THEN middle ELSE weak]

\* if (cond) score += amount
AddIf(score, cond, amount) == IF cond THEN FAdd(score, amount) ELSE score

\* 50 < promoterHolding < 75
OptimalPromoterHolding(data) ==
  FGt(data.promoterHolding, FromInt(50)) /\ FLt(data.promoterHolding, FromInt(75))

\* tam > revenue * 10
LargeAddressableMarket(data) == FGt(data.tam, FMul(data.revenue, FromInt(10)))

calculateBuffettScore(data) ==
  LET s0     == FromInt(5)
      s1     == AddIf(s0, FGt(data.roce, FromInt(20)), FromInt(1))
      fairPE == FMul(data.revenueGrowth, Lit(3, 2))
      s2     == IF FLt(data.pe, FMul(fairPE, Lit(7, 10))) THEN FAdd(s1, FromInt(2))
                ELSE IF FLt(data.pe, fairPE) THEN FAdd(s1, FromInt(1))
                ELSE s1
      s3     == AddIf(s2, OptimalPromoterHolding(data), Lit(1, 2))
      s4     == AddIf(s3, FLt(data.debtToEquity, Lit(1, 2)), Lit(1, 2))
  IN LensResult(s4, "Strong Buy", "Hold", "Avoid")

calculateLynchScore(data) ==
  LET s0  == FromInt(5)
      peg == FDiv(data.pe, data.revenueGrowth)
      s1  == IF FLt(peg, FromInt(1)) THEN FAdd(s0, FromInt(2))
             ELSE IF FLt(peg, Lit(3, 2)) THEN FAdd(s0, FromInt(1))
             ELSE IF FGt(peg, FromInt(2)) THEN FSub(s0, FromInt(1))
             ELSE s0
      s2  == AddIf(s1, FGt(data.revenueGrowth, FromInt(20)), FromInt(1))
      s3  == AddIf(s2, FGt(data.roe, FromInt(15)), FromInt(1))
  IN LensResult(s3, "Buy", "Hold", "Pass")

calculateGrahamScore(data) ==
  LET s0 == FromInt(5)
      s1 == IF FLt(data.pb, FromInt(1)) THEN FAdd(s0, FromInt(2))
            ELSE IF FLt(data.pb, Lit(3, 2)) THEN FAdd(s0, FromInt(1))
            ELSE IF FGt(data.pb, FromInt(3)) THEN FSub(s0, FromInt(1))
            ELSE s0
      s2 == IF FLt(data.pe, FromInt(15)) THEN FAdd(s1, FromInt(1))
            ELSE IF FGt(data.pe, FromInt(25)) THEN FSub(s1, FromInt(1))
            ELSE s1
      grahamNumber == MathSqrt(FMul(FMul(Lit(45, 2), data.eps), data.bookValue))
      s3 == AddIf(s2, FLt(data.price, FMul(grahamNumber, Lit(8, 10))), FromInt(2))
      s4 == AddIf(s3, FLt(data.debtToEquity, Lit(1, 2)), FromInt(1))
  IN LensResult(s4, "Strong Value", "Fair Value", "Expensive")

calculateFisherScore(data) ==
  LET s0 == FromInt(5)
      s1 == AddIf(s0, FGt(data.roe, FromInt(20)), Lit(3, 2))
      s2 == AddIf(s1, FGt(data.roce, FromInt(20)), Lit(3, 2))
      s3 == AddIf(s2, FGt(data.marketCap, FromInt(100000)), FromInt(1))
      s4 == AddIf(s3, FGt(data.revenueGrowth, FromInt(15)), FromInt(1))
  IN LensResult(s4, "Quality Compounder", "Good Business", "Average")

calculateJhunjhunwalaScore(data) ==
  LET s0 == FromInt(5)
      s1 == AddIf(s0, ToLowerCase(data.sector) \in GrowthSectors, Lit(3, 2))
      s2 == AddIf(s1, OptimalPromoterHolding(data), FromInt(1))
      s3 == AddIf(s2, LargeAddressableMarket(data), Lit(3, 2))
      s4 == AddIf(s3, FGt(data.revenueGrowth, FromInt(20)), FromInt(1))
  IN LensResult(s4, "India Story", "Potential", "Pass")

calculateKacholiaScore(data) ==
  LET s0 == FromInt(5)
      s1 == IF FGe(data.marketCap, FromInt(500)) /\ FLe(data.marketCap, FromInt(10000))
            THEN FAdd(s0, FromInt(2))
            ELSE FSub(s0, FromInt(1))
      s2 == AddIf(s1, FGt(data.roe, FromInt(18)) /\ FGt(data.roce, FromInt(18)), Lit(3, 2))
      s3 == AddIf(s2, FGt(data.revenueGrowth, FromInt(15)), Lit(3, 2))
  IN LensResult(s3, "Hidden Gem", "Watch", "Pass")

calculateKediaScore(data) ==
  LET s0 == FromInt(5)
      s1 == AddIf(s0, FGe(data.marketCap, FromInt(100)) /\ FLe(data.marketCap, FromInt(5000)),
                  FromInt(1))
      s2 == AddIf(s1, FGe(data.companyAge, FromInt(5)) /\ FLe(data.companyAge, FromInt(15)),
                  FromInt(1))
      s3 == AddIf(s2, LargeAddressableMarket(data), FromInt(2))
      s4 == AddIf(s3, FGt(data.revenueGrowth, FromInt(25)) /\ FGt(data.roe, FromInt(20)),
                  FromInt(1))
  IN LensResult(s4, "SMiLE Stock", "Potential", "Not SMiLE")

calculateQuantitativeScore(data) ==
  LET s0              == FromInt(5)
      earningsYield   == FDiv(data.ebit, data.enterpriseValue)
      returnOnCapital == FDiv(data.ebit, data.capitalEmployed)
      s1 == AddIf(s0, FGt(earningsYield, Lit(1, 10)) /\ FGt(returnOnCapital, Lit(2, 10)),
                  FromInt(2))
      s2 == IF FGe(data.piotroskiScore, FromInt(8)) THEN FAdd(s1, FromInt(2))
            ELSE IF FGe(data.piotroskiScore, FromInt(6)) THEN FAdd(s1, FromInt(1))
            ELSE s1
      s3 == AddIf(s2, FGt(data.priceChange3M, Zero) /\ FGt(data.priceChange6M, Zero),
                  FromInt(1))
  IN LensResult(s3, "Quantitatively Strong", "Neutral", "Weak")

\* The keys of lensScores, in the order Object.values lists them.
Lenses ==
  <<"buffett", "lynch", "graham", "fisher", "jhunjhunwala", "kacholia", "kedia",
    "quantitative">>

\* const lensScores = { buffett: calculateBuffettScore(data), ... }
LensScores(data) ==
  [buffett      |-> calculateBuffettScore(data),
   lynch        |-> calculateLynchScore(data),
   graham       |-> calculateGrahamScore(data),
   fisher       |-> calculateFisherScore(data),
   jhunjhunwala |-> calculateJhunjhunwalaScore(data),
   kacholia     |-> calculateKacholiaScore(data),
   kedia        |-> calculateKediaScore(data),
   quantitative |-> calculateQuantitativeScore(data)]

\* Object.values(lensScores).map((l) => l.score)
ScoresOf(lensScores) == [n \in 1..Len(Lenses) |-> lensScores[Lenses[n]].score]

\* scores.reduce((sum, s) => sum + s, 0) / scores.length
MeanScore(scores) == FDiv(SumOf(scores), FromInt(Len(scores)))

\* The if-else chain that determines the recommendation.
RecommendationOf(finalScore) ==
  IF FGe(finalScore, FromInt(8)) THEN "STRONG_BUY"
  ELSE IF FGe(finalScore, Lit(13, 2)) THEN "BUY"
  ELSE IF FGe(finalScore, Lit(9, 2)) THEN "HOLD"
  ELSE IF FGe(finalScore, FromInt(3)) THEN "SELL"
  ELSE "STRONG_SELL"

\* Mutation of ScoreVariance: the sum of squares is divided by
\* scores.length - 1.
ScoreVarianceSample(scores, finalScore) ==
  MathSqrt(FDiv(SumSquaredDeviations(scores, finalScore, Len(scores)),
                FromInt(Len(scores) - 1)))

\* Math.sqrt(scores.reduce((sum, s) => sum + Math.pow(s - finalScore, 2), 0)
\*           / scores.length)
ScoreVariance(scores, finalScore) ==
  MathSqrt(FDiv(SumSquaredDeviations(scores, finalScore, Len(scores)),
                FromInt(Len(scores))))

\* Math.round(Math.max(60, Math.min(95, 100 - scoreVariance * 10)))
ConfidenceOf(scoreVariance) ==
  MathRound(MathMax(FromInt(60),
                    MathMin(FromInt(95),
                            FSub(FromInt(100), FMul(scoreVariance, FromInt(10))))))

\* Mutation of ReportedScore: the mean is rounded to an integer.
ReportedScoreWhole(finalScore) == MathRound(finalScore)

\* Math.round(finalScore * 10) / 10
ReportedScore(finalScore) == FDiv(MathRound(FMul(finalScore, FromInt(10))), FromInt(10))

\* analyzeStock after the lens scores have been computed.
AnalysisOf(data, market, lensScores) ==
  LET scores           == ScoresOf(lensScores)
      finalScore       == MeanScore(scores)
      growthMultiplier == FAdd(FromInt(1), FDiv(data.revenueGrowth, FromInt(100)))
      targetPrice      == MathRound(FMul(FMul(data.price, growthMultiplier),
                                         FDiv(finalScore, FromInt(5))))
      upsidePercentage == MathRound(FMul(FDiv(FSub(targetPrice, data.price), data.price),
                                         FromInt(100)))
  IN [ticker           |-> data.ticker,
      market           |-> market,
      lensScores       |-> lensScores,
      finalScore       |-> ReportedScore(finalScore),
      recommendation   |-> RecommendationOf(finalScore),
      confidence       |-> ConfidenceOf(ScoreVariance(scores, finalScore)),
      currentPrice     |-> MathRound(data.price),
      targetPrice      |-> targetPrice,
      upsidePercentage |-> upsidePercentage]

analyzeStock(data, market) == AnalysisOf(data, market, LensScores(data))

----------------------------------------------------------------------------
(* State *)

VARIABLES
  portfolioReturns,   \* argument of calculateAttributionMetrics and of
                      \* performFactorAnalysis
  benchmarkReturns,   \* argument of calculateAttributionMetrics
  riskFreeRate,       \* argument of calculateAttributionMetrics (annual, percent)
  metrics,            \* the AttributionMetrics the call resolved with
  attrPc,             \* "called" until the call has returned, then "returned"
  config,             \* arguments of runMonteCarloSimulation
  results,            \* results
  i,                  \* i of the outer loop
  year,               \* year of the inner loop
  value,              \* value of the trial under way
  randomCalls,        \* number of calls of Math.random() so far
  outcome,            \* what the call resolved with
  mcPc,               \* "idle", "trials", "years" or "returned"
  currentPortfolioValue, \* argument of runStressTests
  assetAllocation,    \* argument of runStressTests
  scenarios,          \* scenarios of runStressTests
  scenarioIndex,      \* number of elements the for-of loop has visited
  stressPc,           \* "idle", "called", "estimating" or "returned"
  factorReturns,      \* argument of performFactorAnalysis
  factors,            \* the array performFactorAnalysis resolved with
  factorPc,           \* "idle", "called" or "returned"
  firstOutcome,       \* what an earlier call of runMonteCarloSimulation with
                      \* the same arguments resolved with, kept by the caller
  shockLibrary,       \* the shock vectors a caller of runStressTests holds
  stockData,          \* argument of analyzeStock
  stockMarket,        \* argument of analyzeStock
  lensScores,         \* lensScores of analyzeStock
  analysis,           \* what analyzeStock returned
  oraclePc,           \* "idle", "called", "scored" or "returned"
  stockAnalyses,      \* rows of the table stockAnalyses, oldest first
  now,                \* the server's clock, in hours
  responses,          \* what the calls of oracle.getAnalysis resolved with
  userLiabilities,    \* the rows getDebtPayoffProjection selected
  liabilityIndex,     \* number of rows userLiabilities.map has finished
  balance,            \* balance of the amortization loop
  months,             \* months of the amortization loop
  totalInterest,      \* totalInterest of the amortization loop
  projections,        \* the projections computed so far
  debtPc,             \* "idle", "mapping", "amortizing" or "returned"
  users,              \* rows of the table users, by id
  familyGroups,       \* rows of the table familyGroups, by insertion
  familyCall          \* the call of family.ts that ran last

attrVars == <<portfolioReturns, benchmarkReturns, riskFreeRate, metrics, attrPc>>

mcVars == <<config, results, i, year, value, randomCalls, outcome, mcPc>>

stressVars ==
  <<currentPortfolioValue, assetAllocation, scenarios, scenarioIndex, stressPc>>

factorVars == <<factorReturns, factors, factorPc>>

callerVars == <<firstOutcome>>

oracleVars == <<stockData, stockMarket, lensScores, analysis, oraclePc>>

cacheVars == <<stockAnalyses, now, responses>>

debtVars ==
  <<userLiabilities, liabilityIndex, balance, months, totalInterest, projections, debtPc>>

familyVars == <<users, familyGroups, familyCall>>

serverVars == <<shockLibrary, oracleVars, cacheVars, debtVars, familyVars>>

vars == <<attrVars, mcVars, stressVars, factorVars, callerVars, serverVars>>

\* Longest return series of the model.
MaxLen == 3

\* Returns a caller passes for the portfolio: a loss beyond -100 %, a loss,
\* no change, a gain.
ReturnValues == {Lit(-3, 2), Lit(-1, 10), Zero, Lit(1, 10)}

\* Returns a caller passes for the benchmark.
BenchmarkValues == {Zero, Lit(1, 10)}

\* Annual risk-free rates, in percent: 0 and the default 6.5.
RiskFreeRates == {Zero, Lit(13, 2)}

SeqsUpTo(S, n) == UNION {[1..k -> S] : k \in 0..n}

\* The value of outcome before the call has returned.
NoOutcome ==
  [scenarios |-> << >>, distribution |-> << >>,
   confidenceIntervals |-> [p5 |-> Undefined, p25 |-> Undefined, p50 |-> Undefined,
                            p75 |-> Undefined, p95 |-> Undefined]]

\* No call of runMonteCarloSimulation.
NoMonteCarlo ==
  /\ config = [currentPortfolioValue |-> Zero, expectedReturn |-> Zero,
               volatility |-> Zero, timeHorizon |-> 0, simulations |-> 0]
  /\ results = << >>
  /\ i = 0
  /\ year = 0
  /\ value = Zero
  /\ randomCalls = 0
  /\ outcome = NoOutcome
  /\ mcPc = "idle"

\* No call of calculateAttributionMetrics.
NoAttribution ==
  /\ portfolioReturns = << >>
  /\ benchmarkReturns = << >>
  /\ riskFreeRate = Zero
  /\ metrics = EmptyMetrics
  /\ attrPc = "idle"

\* No call of runStressTests.
NoStressTests ==
  /\ currentPortfolioValue = Zero
  /\ assetAllocation = [c \in {"stocks", "bonds", "gold", "cash", "alternatives"} |-> Zero]
  /\ scenarios = << >>
  /\ scenarioIndex = 0
  /\ stressPc = "idle"

NoFactorReturns == [market |-> << >>, size |-> << >>, value |-> << >>, momentum |-> << >>]

\* No call of performFactorAnalysis.
NoFactorAnalysis ==
  /\ factorReturns = NoFactorReturns
  /\ factors = << >>
  /\ factorPc = "idle"

\* The lens scores before analyzeStock has computed them.
NoLensScores ==
  [l \in {"buffett", "lynch", "graham", "fisher", "jhunjhunwala", "kacholia", "kedia",
          "quantitative"} |-> [score |-> Zero, verdict |-> ""]]

\* The value of analysis before analyzeStock has returned.
NoAnalysis ==
  [ticker |-> "", market |-> "", lensScores |-> NoLensScores, finalScore |-> Zero,
   recommendation |-> "", confidence |-> Zero, currentPrice |-> Zero,
   targetPrice |-> Zero, upsidePercentage |-> Zero]

\* The value of stockData before analyzeStock is called.
NoStockData ==
  [ticker |-> "", price |-> Zero, marketCap |-> Zero, pe |-> Zero, pb |-> Zero,
   roe |-> Zero, roce |-> Zero, debtToEquity |-> Zero, revenueGrowth |-> Zero,
   eps |-> Zero, bookValue |-> Zero, ebit |-> Zero, enterpriseValue |-> Zero,
   capitalEmployed |-> Zero, piotroskiScore |-> Zero, priceChange3M |-> Zero,
   priceChange6M |-> Zero, promoterHolding |-> Zero, sector |-> "", companyAge |-> Zero,
   tam |-> Zero, revenue |-> Zero]

\* No call of analyzeStock.
NoStockAnalysis ==
  /\ stockData = NoStockData
  /\ stockMarket = ""
  /\ lensScores = NoLensScores
  /\ analysis = NoAnalysis
  /\ oraclePc = "idle"

\* No call of oracle.getAnalysis.
NoGetAnalysis ==
  /\ stockAnalyses = << >>
  /\ now = 0
  /\ responses = << >>

\* No call of getDebtPayoffProjection.
NoDebtProjection ==
  /\ userLiabilities = << >>
  /\ liabilityIndex = 0
  /\ balance = Zero
  /\ months = 0
  /\ totalInterest = Zero
  /\ projections = << >>
  /\ debtPc = "idle"

\* The value of familyCall before any call.
NoCall == [op |-> "none", userId |-> 0, target |-> 0, ended |-> "returned"]

\* No call of createFamilyGroup, inviteFamilyMember or removeFamilyMember.
NoFamilyCalls ==
  /\ users = << >>
  /\ familyGroups = << >>
  /\ familyCall = NoCall

\* None of the server-side procedures is called and a caller of
\* runStressTests holds no shock vectors of its own.
NoServerCalls ==
  /\ shockLibrary = << >>
  /\ NoStockAnalysis
  /\ NoGetAnalysis
  /\ NoDebtProjection
  /\ NoFamilyCalls

\* None of the analytics engines is called.
NoAnalyticsCalls ==
  /\ NoAttribution
  /\ NoMonteCarlo
  /\ NoStressTests
  /\ NoFactorAnalysis
  /\ firstOutcome = NoOutcome

InitAttribution ==
  /\ portfolioReturns \in SeqsUpTo(ReturnValues, MaxLen)
  /\ benchmarkReturns \in SeqsUpTo(BenchmarkValues, MaxLen)
  /\ riskFreeRate \in RiskFreeRates
  /\ metrics = EmptyMetrics
  /\ attrPc = "called"
  /\ NoMonteCarlo
  /\ NoStressTests
  /\ NoFactorAnalysis
  /\ firstOutcome = NoOutcome
  /\ NoServerCalls

\* The call runs to its return statement.
CalculateAttributionMetrics ==
  /\ attrPc = "called"
  /\ metrics' = calculateAttributionMetrics(portfolioReturns, benchmarkReturns, riskFreeRate)
  /\ attrPc' = "returned"
  /\ UNCHANGED <<portfolioReturns, benchmarkReturns, riskFreeRate>>
  /\ UNCHANGED <<mcVars, stressVars, factorVars, callerVars, serverVars>>

NextAttribution == CalculateAttributionMetrics

SpecAttribution == InitAttribution /\ [][NextAttribution]_vars

\* Largest timeHorizon of the model, in years.
MaxHorizon == 2

\* Largest number of simulations of the model.
MaxSimulations == 3

InitMonteCarlo ==
  /\ config \in [currentPortfolioValue : {FromInt(1000)},
                 expectedReturn : {Lit(12, 100), Lit(-5, 100)},
                 volatility : {Zero, Lit(2, 10)},
                 timeHorizon : 0..MaxHorizon,
                 simulations : 1..MaxSimulations]
  /\ results = << >>
  /\ i = 0
  /\ year = 0
  /\ value = Zero
  /\ randomCalls = 0
  /\ outcome = NoOutcome
  /\ mcPc = "trials"
  /\ NoAttribution
  /\ NoStressTests
  /\ NoFactorAnalysis
  /\ firstOutcome = NoOutcome
  /\ NoServerCalls

\* i < simulations: let value = currentPortfolioValue and enter the inner loop.
StartTrial ==
  /\ mcPc = "trials"
  /\ i < config.simulations
  /\ value' = config.currentPortfolioValue
  /\ year' = 0
  /\ mcPc' = "years"
  /\ UNCHANGED <<config, results, i, randomCalls, outcome>>
  /\ UNCHANGED <<attrVars, stressVars, factorVars, callerVars, serverVars>>

\* One iteration of the inner loop: a random return is drawn and applied.
SimulateYear ==
  /\ mcPc = "years"
  /\ InnerLoopContinues(year, config.timeHorizon)
  /\ \E u1 \in UniformDraws, u2 \in UniformDraws :
       LET randomReturn ==
             generateNormalRandom(config.expectedReturn, config.volatility, u1, u2)
       IN value' = FMul(value, FAdd(FromInt(1), randomReturn))
  /\ randomCalls' = randomCalls + 2
  /\ year' = year + 1
  /\ UNCHANGED <<config, results, i, outcome, mcPc>>
  /\ UNCHANGED <<attrVars, stressVars, factorVars, callerVars, serverVars>>

\* The inner loop is over: results.push(value); i++.
PushResult ==
  /\ mcPc = "years"
  /\ ~InnerLoopContinues(year, config.timeHorizon)
  /\ results' = Append(results, value)
  /\ i' = i + 1
  /\ mcPc' = "trials"
  /\ UNCHANGED <<config, year, value, randomCalls, outcome>>
  /\ UNCHANGED <<attrVars, stressVars, factorVars, callerVars, serverVars>>

\* The outer loop is over: results is sorted in place, the percentiles and
\* the scenarios are read from it and the call returns.
SortAndReturn ==
  /\ mcPc = "trials"
  /\ ~(i < config.simulations)
  /\ \E sorted \in SortOutcomes(results) :
       /\ results' = sorted
       /\ outcome' = Outcome(sorted, config.simulations)
  /\ mcPc' = "returned"
  /\ UNCHANGED <<config, i, year, value, randomCalls>>
  /\ UNCHANGED <<attrVars, stressVars, factorVars, callerVars, serverVars>>

NextMonteCarlo == StartTrial \/ SimulateYear \/ PushResult \/ SortAndReturn

SpecMonteCarlo == InitMonteCarlo /\ [][NextMonteCarlo]_vars

\* The caller keeps what the call resolved with and calls
\* runMonteCarloSimulation a second time with the same five arguments; the
\* function has no other parameter, and Math.random() is not reset.
CallAgain ==
  /\ mcPc = "returned"
  /\ firstOutcome = NoOutcome
  /\ firstOutcome' = outcome
  /\ results' = << >>
  /\ i' = 0
  /\ year' = 0
  /\ value' = Zero
  /\ outcome' = NoOutcome
  /\ mcPc' = "trials"
  /\ UNCHANGED <<config, randomCalls>>
  /\ UNCHANGED <<attrVars, stressVars, factorVars, serverVars>>

NextMonteCarloTwice == NextMonteCarlo \/ CallAgain

SpecMonteCarloTwice == InitMonteCarlo /\ [][NextMonteCarloTwice]_vars

\* Weights a caller passes for one category.
AllocationWeights == {Zero, FromInt(20), FromInt(100)}

\* Portfolio values a caller passes to runStressTests.
PortfolioValues == {Zero, FromInt(1000), Lit(5001, 2)}

InitStressTests ==
  /\ currentPortfolioValue \in PortfolioValues
  /\ assetAllocation \in [{"stocks", "bonds", "gold", "cash", "alternatives"}
                            -> AllocationWeights]
  /\ scenarios = << >>
  /\ scenarioIndex = 0
  /\ stressPc = "called"
  /\ NoAttribution
  /\ NoMonteCarlo
  /\ NoFactorAnalysis
  /\ firstOutcome = NoOutcome
  /\ NoServerCalls

\* The array literal is evaluated: the four calls of calculateScenarioImpact
\* are made and every estimatedValue is 0.
BuildScenarios ==
  /\ stressPc = "called"
  /\ scenarios' = InitialScenarios(assetAllocation)
  /\ scenarioIndex' = 0
  /\ stressPc' = "estimating"
  /\ UNCHANGED <<currentPortfolioValue, assetAllocation>>
  /\ UNCHANGED <<attrVars, mcVars, factorVars, callerVars, serverVars>>

\* One iteration of for (const scenario of scenarios).
EstimateValue ==
  /\ stressPc = "estimating"
  /\ HasNextScenario(scenarioIndex, scenarios)
  /\ LET scenario == scenarios[scenarioIndex + 1]
     IN scenarios' =
          [scenarios EXCEPT ![scenarioIndex + 1].estimatedValue =
             EstimatedValue(currentPortfolioValue, scenario.portfolioImpact)]
  /\ scenarioIndex' = scenarioIndex + 1
  /\ UNCHANGED <<currentPortfolioValue, assetAllocation, stressPc>>
  /\ UNCHANGED <<attrVars, mcVars, factorVars, callerVars, serverVars>>

\* The loop is over: return scenarios.
ReturnScenarios ==
  /\ stressPc = "estimating"
  /\ ~HasNextScenario(scenarioIndex, scenarios)
  /\ stressPc' = "returned"
  /\ UNCHANGED <<currentPortfolioValue, assetAllocation, scenarios, scenarioIndex>>
  /\ UNCHANGED <<attrVars, mcVars, factorVars, callerVars, serverVars>>

NextStressTests == BuildScenarios \/ EstimateValue \/ ReturnScenarios

SpecStressTests == InitStressTests /\ [][NextStressTests]_vars

\* A shock vector as a caller would write it: a name and a percentage
\* change for every category.
ShockVector(name, stocks, bonds, gold, cash, alternatives) ==
  [name |-> name, stocks |-> FromInt(stocks), bonds |-> FromInt(bonds),
   gold |-> FromInt(gold), cash |-> FromInt(cash),
   alternatives |-> FromInt(alternatives)]

\* Shock-vector libraries a caller holds: none, one vector, two vectors.
ShockLibraries ==
  {<< >>,
   <<ShockVector("X", -50, 5, 25, 0, -30)>>,
   <<ShockVector("Y", 0, 0, 0, -10, 0), ShockVector("X", -50, 5, 25, 0, -30)>>}

\* Allocation weights that are no percentages: parts of eight.
PartWeights == {Zero, FromInt(1), FromInt(7)}

\* runStressTests called by a caller that holds a shock-vector library of
\* its own, with weights that do not add up to 100.  The function has two
\* parameters; it is handed the value and the allocation.
InitStressTestsCallers ==
  /\ currentPortfolioValue = FromInt(1000)
  /\ assetAllocation \in [{"stocks", "bonds", "gold", "cash", "alternatives"}
                            -> PartWeights]
  /\ scenarios = << >>
  /\ scenarioIndex = 0
  /\ stressPc = "called"
  /\ shockLibrary \in ShockLibraries
  /\ NoAttribution
  /\ NoMonteCarlo
  /\ NoFactorAnalysis
  /\ firstOutcome = NoOutcome
  /\ NoStockAnalysis
  /\ NoGetAnalysis
  /\ NoDebtProjection
  /\ NoFamilyCalls

SpecStressTestsCallers == InitStressTestsCallers /\ [][NextStressTests]_vars

\* Longest series of a call of performFactorAnalysis.
MaxFactorLen == 1

\* Factor return series a caller passes.
FactorSeries == SeqsUpTo({Zero, Lit(1, 10)}, MaxFactorLen)

InitFactorAnalysis ==
  /\ portfolioReturns \in SeqsUpTo({Lit(-1, 10), Lit(1, 10)}, MaxFactorLen)
  /\ factorReturns \in [market : FactorSeries, size : FactorSeries,
                        value : FactorSeries, momentum : FactorSeries]
  /\ factors = << >>
  /\ factorPc = "called"
  /\ benchmarkReturns = << >>
  /\ riskFreeRate = Zero
  /\ metrics = EmptyMetrics
  /\ attrPc = "idle"
  /\ NoMonteCarlo
  /\ NoStressTests
  /\ firstOutcome = NoOutcome
  /\ NoServerCalls

\* The call runs to its return statement.
PerformFactorAnalysis ==
  /\ factorPc = "called"
  /\ factors' = performFactorAnalysis(portfolioReturns, factorReturns)
  /\ factorPc' = "returned"
  /\ UNCHANGED factorReturns
  /\ UNCHANGED <<attrVars, mcVars, stressVars, callerVars, serverVars>>

NextFactorAnalysis == PerformFactorAnalysis

SpecFactorAnalysis == InitFactorAnalysis /\ [][NextFactorAnalysis]_vars

----------------------------------------------------------------------------
(* analyzeStock *)

\* Stock data a market-data provider reports.  Every test of a lens function
\* is met by one value and missed by another; eps 10 and bookValue 100 give
\* the Graham number 150.
StockDatas ==
  {[ticker |-> "TCS", price |-> price, marketCap |-> marketCap,
    pe |-> valuation[1], pb |-> valuation[2], roe |-> roe, roce |-> roce,
    debtToEquity |-> debtToEquity, revenueGrowth |-> revenueGrowth,
    eps |-> FromInt(10), bookValue |-> FromInt(100), ebit |-> FromInt(30),
    enterpriseValue |-> quality[1], capitalEmployed |-> FromInt(100),
    piotroskiScore |-> quality[2], priceChange3M |-> quality[3],
    priceChange6M |-> FromInt(5), promoterHolding |-> promoterHolding,
    sector |-> theme[1], companyAge |-> companyAge, tam |-> theme[2],
    revenue |-> FromInt(10)] :
     price \in {FromInt(100), FromInt(500)},
     marketCap \in {FromInt(50), FromInt(1000), FromInt(200000)},
     valuation \in {<<FromInt(10), Lit(1, 2)>>, <<FromInt(30), FromInt(4)>>},
     roe \in {FromInt(10), FromInt(25)},
     roce \in {FromInt(10), FromInt(25)},
     debtToEquity \in {Lit(1, 4), FromInt(1)},
     revenueGrowth \in {Zero, FromInt(30)},
     quality \in {<<FromInt(100), FromInt(9), FromInt(5)>>,
                  <<FromInt(1000), FromInt(5), FromInt(-5)>>},
     promoterHolding \in {FromInt(40), FromInt(60)},
     theme \in {<<"Pharma", FromInt(1000)>>, <<"Technology", FromInt(50)>>},
     companyAge \in {FromInt(10), FromInt(30)}}

InitAnalyzeStock ==
  /\ stockData \in StockDatas
  /\ stockMarket = "IN"
  /\ lensScores = NoLensScores
  /\ analysis = NoAnalysis
  /\ oraclePc = "called"
  /\ NoAnalyticsCalls
  /\ shockLibrary = << >>
  /\ NoGetAnalysis
  /\ NoDebtProjection
  /\ NoFamilyCalls

\* The eight lens functions have returned.
ScoreLenses ==
  /\ oraclePc = "called"
  /\ lensScores' = LensScores(stockData)
  /\ oraclePc' = "scored"
  /\ UNCHANGED <<stockData, stockMarket, analysis>>
  /\ UNCHANGED <<attrVars, mcVars, stressVars, factorVars, callerVars>>
  /\ UNCHANGED <<shockLibrary, cacheVars, debtVars, familyVars>>

\* analyzeStock runs from the final score to its return statement.
Summarise ==
  /\ oraclePc = "scored"
  /\ analysis' = AnalysisOf(stockData, stockMarket, lensScores)
  /\ oraclePc' = "returned"
  /\ UNCHANGED <<stockData, stockMarket, lensScores>>
  /\ UNCHANGED <<attrVars, mcVars, stressVars, factorVars, callerVars>>
  /\ UNCHANGED <<shockLibrary, cacheVars, debtVars, familyVars>>

NextAnalyzeStock == ScoreLenses \/ Summarise

SpecAnalyzeStock == InitAnalyzeStock /\ [][NextAnalyzeStock]_vars

\* The verdicts of the lens functions, best first.
Verdicts ==
  [buffett      |-> <<"Strong Buy", "Hold", "Avoid">>,
   lynch        |-> <<"Buy", "Hold", "Pass">>,
   graham       |-> <<"Strong Value", "Fair Value", "Expensive">>,
   fisher       |-> <<"Quality Compounder", "Good Business", "Average">>,
   jhunjhunwala |-> <<"India Story", "Potential", "Pass">>,
   kacholia     |-> <<"Hidden Gem", "Watch", "Pass">>,
   kedia        |-> <<"SMiLE Stock", "Potential", "Not SMiLE">>,
   quantitative |-> <<"Quantitatively Strong", "Neutral", "Weak">>]

\* The multiples of 0.5 in [0, 10].
HalfScores == {Lit(n, 2) : n \in 0..20}

\* The two ends of the range of a score.
ExtremeScores == {Zero, FromInt(10)}

\* Lens scores whose sums are all the multiples of 0.5 in [0, 80]: any score
\* for the first lens, 0 or 10 for each of the others.
ScoreCombinations ==
  {[l \in DOMAIN Verdicts |->
      LensResult(IF l = "buffett" THEN first ELSE rest[l],
                 Verdicts[l][1], Verdicts[l][2], Verdicts[l][3])] :
     first \in HalfScores, rest \in [DOMAIN Verdicts -> ExtremeScores]}

\* analyzeStock with lens scores in hand: every combination of scores,
\* whether or not some StockData yields it.  Of the data only ticker, price
\* and revenueGrowth are read from here on.
InitLensCombinations ==
  /\ stockData = [NoStockData EXCEPT !.ticker = "TCS", !.price = FromInt(100),
                                     !.revenueGrowth = FromInt(30)]
  /\ stockMarket = "IN"
  /\ lensScores \in ScoreCombinations
  /\ analysis = NoAnalysis
  /\ oraclePc = "scored"
  /\ NoAnalyticsCalls
  /\ shockLibrary = << >>
  /\ NoGetAnalysis
  /\ NoDebtProjection
  /\ NoFamilyCalls

NextLensCombinations == Summarise

SpecLensCombinations == InitLensCombinations /\ [][NextLensCombinations]_vars

----------------------------------------------------------------------------
(* oracle.getAnalysis, getStockAnalysis and createStockAnalysis *)

\* Tickers a client asks for.
Tickers == {"TCS", "INFY"}

Markets == {"IN", "US"}

\* What fetchStockData resolves with, for any ticker: what the provider
\* reports is not in the server's hands.
FetchedStockDatas ==
  {d \in StockDatas :
     /\ d.price = FromInt(100)
     /\ d.marketCap = FromInt(1000)
     /\ d.roe = d.roce
     /\ d.debtToEquity = Lit(1, 4)
     /\ d.piotroskiScore = FromInt(9)
     /\ d.promoterHolding = FromInt(60)
     /\ d.sector = "Pharma"
     /\ d.companyAge = FromInt(10)}

\* Hours an analysis is served from the table: 24 * 60 * 60 * 1000 ms.
CacheHours == 24

\* Hours that pass between two readings of the clock.
ClockStep == 12

\* The clock stops here.
MaxHours == 36

\* Number of calls of oracle.getAnalysis.
MaxCalls == 2

\* Math.round(x * 10), the form in which a score is stored.
StoredScore(x) == MathRound(FMul(x, FromInt(10)))

\* The row db.createStockAnalysis inserts for an analysis.  lensScore and
\* lensVerdict stand for the sixteen columns buffettScore, buffettVerdict,
\* ...; the four text columns, the same for every row, are left out.
StockAnalysisRow(id, ticker, market, analysisDate, result) ==
  [id               |-> id,
   ticker           |-> ticker,
   market           |-> market,
   analysisDate     |-> analysisDate,
   lensScore        |-> [l \in DOMAIN result.lensScores |->
                           StoredScore(result.lensScores[l].score)],
   lensVerdict      |-> [l \in DOMAIN result.lensScores |-> result.lensScores[l].verdict],
   finalScore       |-> StoredScore(result.finalScore),
   recommendation   |-> result.recommendation,
   confidence       |-> result.confidence,
   currentPrice     |-> result.currentPrice,
   targetPrice      |-> result.targetPrice,
   upsidePercentage |-> result.upsidePercentage]

\* The rows db.getStockAnalysis selects: same ticker and market, analysed
\* at most 24 hours ago.
RecentRows(ticker, market) ==
  {n \in 1..Len(stockAnalyses) :
     /\ stockAnalyses[n].ticker = ticker
     /\ stockAnalyses[n].market = market
     /\ stockAnalyses[n].analysisDate >= now - CacheHours}

\* orderBy(desc(analysisDate)).limit(1): a row with the latest date.
LatestRows(ticker, market) ==
  {n \in RecentRows(ticker, market) :
     \A other \in RecentRows(ticker, market) :
       stockAnalyses[other].analysisDate <= stockAnalyses[n].analysisDate}

\* { ...cached, lensScores: { buffett: { score: cached.buffettScore / 10,
\* ... } } }: the columns of the row as they are, and the lens scores
\* divided by 10.
CachedAnalysis(cached) ==
  [ticker           |-> cached.ticker,
   market           |-> cached.market,
   lensScores       |-> [l \in DOMAIN cached.lensScore |->
                           [score   |-> FDiv(cached.lensScore[l], FromInt(10)),
                            verdict |-> cached.lensVerdict[l]]],
   finalScore       |-> cached.finalScore,
   recommendation   |-> cached.recommendation,
   confidence       |-> cached.confidence,
   currentPrice     |-> cached.currentPrice,
   targetPrice      |-> cached.targetPrice,
   upsidePercentage |-> cached.upsidePercentage]

\* What a call resolved with: the analysis, whether it was computed or
\* served from the table, and the id of the row it was stored in or read
\* from.
Response(served, row, result) == [served |-> served, row |-> row, analysis |-> result]

InitGetAnalysis ==
  /\ stockAnalyses = << >>
  /\ now = 0
  /\ responses = << >>
  /\ NoAnalyticsCalls
  /\ shockLibrary = << >>
  /\ NoStockAnalysis
  /\ NoDebtProjection
  /\ NoFamilyCalls

\* oracle.getAnalysis finds a row of the last 24 hours and returns it.
GetAnalysisCached ==
  /\ Len(responses) < MaxCalls
  /\ \E ticker \in Tickers, market \in Markets :
       /\ RecentRows(ticker, market) # {}
       /\ \E n \in LatestRows(ticker, market) :
            responses' = Append(responses,
                                Response("cache", stockAnalyses[n].id,
                                         CachedAnalysis(stockAnalyses[n])))
  /\ UNCHANGED <<stockAnalyses, now>>
  /\ UNCHANGED <<attrVars, mcVars, stressVars, factorVars, callerVars>>
  /\ UNCHANGED <<shockLibrary, oracleVars, debtVars, familyVars>>

\* oracle.getAnalysis finds no such row: it fetches the stock data, analyses
\* them, stores the analysis and returns it.
GetAnalysisComputed ==
  /\ Len(responses) < MaxCalls
  /\ \E ticker \in Tickers, market \in Markets :
       /\ RecentRows(ticker, market) = {}
       /\ \E fetched \in FetchedStockDatas :
          \E result \in {analyzeStock([fetched EXCEPT !.ticker = ticker], market)} :
            LET id == Len(stockAnalyses) + 1
            IN /\ stockAnalyses' =
                    Append(stockAnalyses, StockAnalysisRow(id, ticker, market, now, result))
               /\ responses' = Append(responses, Response("computed", id, result))
  /\ UNCHANGED now
  /\ UNCHANGED <<attrVars, mcVars, stressVars, factorVars, callerVars>>
  /\ UNCHANGED <<shockLibrary, oracleVars, debtVars, familyVars>>

\* Time passes.
Tick ==
  /\ now + ClockStep <= MaxHours
  /\ now' = now + ClockStep
  /\ UNCHANGED <<stockAnalyses, responses>>
  /\ UNCHANGED <<attrVars, mcVars, stressVars, factorVars, callerVars>>
  /\ UNCHANGED <<shockLibrary, oracleVars, debtVars, familyVars>>

NextGetAnalysis == GetAnalysisCached \/ GetAnalysisComputed \/ Tick

SpecGetAnalysis == InitGetAnalysis /\ [][NextGetAnalysis]_vars

----------------------------------------------------------------------------
(* getDebtPayoffProjection *)

\* const maxMonths = 360
maxMonths == 360

\* Number of liabilities of the user.
MaxLiabilities == 1

\* null, the value of a column without a value.
Null == [k |-> "null", m |-> 0, e |-> 0]

\* Balances, interest rates in basis points per year and monthly payments of
\* the rows: no debt or 1000; no interest or 12 % a year; no payment set, a
\* payment of 0, one that takes 1000 months, one that equals the first
\* month's interest, and one that pays 1000 off within two months.
Balances == {Zero, FromInt(1000)}

InterestRates == {Zero, FromInt(1200)}

MonthlyPayments == {Null, Zero, FromInt(1), FromInt(10), FromInt(600)}

Liabilities ==
  [id : {1}, currentBalance : Balances, interestRate : InterestRates,
   monthlyPayment : MonthlyPayments]

\* (liability.interestRate / 10000) / 12
MonthlyRate(liability) == FDiv(FDiv(liability.interestRate, FromInt(10000)), FromInt(12))

\* liability.monthlyPayment || 0
MonthlyPaymentOf(liability) ==
  IF liability.monthlyPayment.k # "fin" \/ liability.monthlyPayment = Zero
  THEN Zero
  ELSE liability.monthlyPayment

\* balance * monthlyRate
InterestPayment(liability, bal) == FMul(bal, MonthlyRate(liability))

\* monthlyPayment - interestPayment
PrincipalPayment(liability, bal) ==
  FSub(MonthlyPaymentOf(liability), InterestPayment(liability, bal))

\* months > 0 ? payoffDate.toISOString().split('T')[0] : "N/A", the date
\* being today plus months: the number of months ahead stands for the date.
PayoffDate(m) ==
  IF m > 0 THEN [known |-> TRUE, monthsAhead |-> m] ELSE [known |-> FALSE, monthsAhead |-> 0]

\* The object the callback of userLiabilities.map returns.
Projection(liability, monthlyPayment, m, interest) ==
  [liabilityId       |-> liability.id,
   currentBalance    |-> liability.currentBalance,
   monthlyPayment    |-> monthlyPayment,
   interestRate      |-> FDiv(liability.interestRate, FromInt(100)),
   monthsToPayoff    |-> m,
   totalInterestPaid |-> MathRound(interest),
   payoffDate        |-> PayoffDate(m)]

\* while (balance > 0 && months < maxMonths)
LoopContinues(bal, m) == FGt(bal, Zero) /\ m < maxMonths

InitDebtProjection ==
  /\ userLiabilities \in SeqsUpTo(Liabilities, MaxLiabilities)
  /\ liabilityIndex = 0
  /\ balance = Zero
  /\ months = 0
  /\ totalInterest = Zero
  /\ projections = << >>
  /\ debtPc = "mapping"
  /\ NoAnalyticsCalls
  /\ shockLibrary = << >>
  /\ NoStockAnalysis
  /\ NoGetAnalysis
  /\ NoFamilyCalls

\* The callback is called for a liability without a monthly payment and
\* returns at once.
ProjectUnpaid ==
  /\ debtPc = "mapping"
  /\ liabilityIndex < Len(userLiabilities)
  /\ LET liability == userLiabilities[liabilityIndex + 1]
     IN /\ MonthlyPaymentOf(liability) = Zero
        /\ projections' = Append(projections, Projection(liability, Zero, 0, Zero))
  /\ liabilityIndex' = liabilityIndex + 1
  /\ UNCHANGED <<userLiabilities, balance, months, totalInterest, debtPc>>
  /\ UNCHANGED <<attrVars, mcVars, stressVars, factorVars, callerVars>>
  /\ UNCHANGED <<shockLibrary, oracleVars, cacheVars, familyVars>>

\* The callback is called for a liability with a monthly payment and
\* reaches the loop.
StartAmortization ==
  /\ debtPc = "mapping"
  /\ liabilityIndex < Len(userLiabilities)
  /\ LET liability == userLiabilities[liabilityIndex + 1]
     IN /\ MonthlyPaymentOf(liability) # Zero
        /\ balance' = liability.currentBalance
  /\ months' = 0
  /\ totalInterest' = Zero
  /\ debtPc' = "amortizing"
  /\ UNCHANGED <<userLiabilities, liabilityIndex, projections>>
  /\ UNCHANGED <<attrVars, mcVars, stressVars, factorVars, callerVars>>
  /\ UNCHANGED <<shockLibrary, oracleVars, cacheVars, familyVars>>

\* One iteration of the loop in which the payment covers the interest.
AmortizeMonth ==
  /\ debtPc = "amortizing"
  /\ LoopContinues(balance, months)
  /\ LET liability == userLiabilities[liabilityIndex + 1]
     IN /\ FGt(PrincipalPayment(liability, balance), Zero)
        /\ balance' = FSub(balance, PrincipalPayment(liability, balance))
        /\ totalInterest' = FAdd(totalInterest, InterestPayment(liability, balance))
  /\ months' = months + 1
  /\ UNCHANGED <<userLiabilities, liabilityIndex, projections, debtPc>>
  /\ UNCHANGED <<attrVars, mcVars, stressVars, factorVars, callerVars>>
  /\ UNCHANGED <<shockLibrary, oracleVars, cacheVars, familyVars>>

\* The iteration in which the payment does not cover the interest: months
\* and totalInterest are reset, the loop is left and the callback returns.
StopUncovered ==
  /\ debtPc = "amortizing"
  /\ LoopContinues(balance, months)
  /\ LET liability == userLiabilities[liabilityIndex + 1]
     IN /\ ~FGt(PrincipalPayment(liability, balance), Zero)
        /\ projections' =
             Append(projections, Projection(liability, MonthlyPaymentOf(liability), 0, Zero))
  /\ months' = 0
  /\ totalInterest' = Zero
  /\ liabilityIndex' = liabilityIndex + 1
  /\ debtPc' = "mapping"
  /\ UNCHANGED <<userLiabilities, balance>>
  /\ UNCHANGED <<attrVars, mcVars, stressVars, factorVars, callerVars>>
  /\ UNCHANGED <<shockLibrary, oracleVars, cacheVars, familyVars>>

\* The loop condition fails and the callback returns.
FinishAmortization ==
  /\ debtPc = "amortizing"
  /\ ~LoopContinues(balance, months)
  /\ LET liability == userLiabilities[liabilityIndex + 1]
     IN projections' =
          Append(projections,
                 Projection(liability, MonthlyPaymentOf(liability), months, totalInterest))
  /\ liabilityIndex' = liabilityIndex + 1
  /\ debtPc' = "mapping"
  /\ UNCHANGED <<userLiabilities, balance, months, totalInterest>>
  /\ UNCHANGED <<attrVars, mcVars, stressVars, factorVars, callerVars>>
  /\ UNCHANGED <<shockLibrary, oracleVars, cacheVars, familyVars>>

\* map has called the callback for every liability.
ReturnProjections ==
  /\ debtPc = "mapping"
  /\ liabilityIndex = Len(userLiabilities)
  /\ debtPc' = "returned"
  /\ UNCHANGED <<userLiabilities, liabilityIndex, balance, months, totalInterest,
                 projections>>
  /\ UNCHANGED <<attrVars, mcVars, stressVars, factorVars, callerVars>>
  /\ UNCHANGED <<shockLibrary, oracleVars, cacheVars, familyVars>>

NextDebtProjection ==
  \/ ProjectUnpaid
  \/ StartAmortization
  \/ AmortizeMonth
  \/ StopUncovered
  \/ FinishAmortization
  \/ ReturnProjections

SpecDebtProjection == InitDebtProjection /\ [][NextDebtProjection]_vars

----------------------------------------------------------------------------
(* Family groups: createFamilyGroup, inviteFamilyMember, removeFamilyMember *)

\* Number of rows of the table users.
MaxUsers == 3

\* Number of rows the table familyGroups can take.
MaxFamilies == 2

UserIds == 1..MaxUsers

\* The familyId of a user in no family group (null); the ids the table
\* familyGroups hands out start at 1.
NoFamily == 0

\* The e-mail addresses of the users, and one no user has.
EmailOf(u) == <<"user", u>>

Emails == {EmailOf(u) : u \in UserIds} \cup {<<"nobody">>}

\* select().from(users).where(eq(users.email, email)).limit(1)
UsersByEmail(email) == {u \in UserIds : users[u].email = email}

\* !currentUser[0] || !currentUser[0].familyId
NotInFamily(userId) == userId \notin UserIds \/ users[userId].familyId = NoFamily

\* currentUser[0].role !== "family_admin" && currentUser[0].role !== "admin"
NotFamilyAdmin(userId) == users[userId].role \notin {"family_admin", "admin"}

\* The call that ran last and how it ended.
Call(op, userId, target, ended) ==
  [op |-> op, userId |-> userId, target |-> target, ended |-> ended]

InitFamily ==
  /\ users \in {[u \in UserIds |-> [familyId |-> NoFamily, role |-> roles[u],
                                      email |-> EmailOf(u)]] :
                   roles \in [UserIds -> {"user", "admin"}]}
  /\ familyGroups = << >>
  /\ familyCall = NoCall
  /\ NoAnalyticsCalls
  /\ shockLibrary = << >>
  /\ NoStockAnalysis
  /\ NoGetAnalysis
  /\ NoDebtProjection

\* createFamilyGroup(userId, name): the group is inserted and its creator
\* becomes family_admin of it.
CreateFamilyGroup ==
  /\ Len(familyGroups) < MaxFamilies
  /\ \E userId \in UserIds :
       LET familyId == Len(familyGroups) + 1
       IN /\ familyGroups' = Append(familyGroups, [id |-> familyId, createdBy |-> userId])
          /\ users' = [users EXCEPT ![userId].familyId = familyId,
                                    ![userId].role = "family_admin"]
          /\ familyCall' = Call("createFamilyGroup", userId, userId, "returned")
  /\ UNCHANGED <<attrVars, mcVars, stressVars, factorVars, callerVars>>
  /\ UNCHANGED <<shockLibrary, oracleVars, cacheVars, debtVars>>

\* inviteFamilyMember or removeFamilyMember throws: the caller is in no
\* family group or is no admin.
CallRejected ==
  /\ \E op \in {"inviteFamilyMember", "removeFamilyMember"}, userId \in UserIds,
        target \in UserIds :
       /\ NotInFamily(userId) \/ NotFamilyAdmin(userId)
       /\ familyCall' = Call(op, userId, target, "threw")
  /\ UNCHANGED <<users, familyGroups>>
  /\ UNCHANGED <<attrVars, mcVars, stressVars, factorVars, callerVars>>
  /\ UNCHANGED <<shockLibrary, oracleVars, cacheVars, debtVars>>

\* inviteFamilyMember(userId, email, role) for the address of a user: the
\* user is put into the caller's family with the given role.
InviteExistingUser ==
  /\ \E userId \in UserIds, email \in Emails, role \in {"family_admin", "family_viewer"} :
       /\ ~NotInFamily(userId)
       /\ ~NotFamilyAdmin(userId)
       /\ \E existingUser \in UsersByEmail(email) :
            /\ users' = [users EXCEPT ![existingUser].familyId = users[userId].familyId,
                                      ![existingUser].role = role]
            /\ familyCall' = Call("inviteFamilyMember", userId, existingUser, "returned")
  /\ UNCHANGED familyGroups
  /\ UNCHANGED <<attrVars, mcVars, stressVars, factorVars, callerVars>>
  /\ UNCHANGED <<shockLibrary, oracleVars, cacheVars, debtVars>>

\* inviteFamilyMember(userId, email, role) for an address no user has: the
\* invitation is logged.
InviteUnknownAddress ==
  /\ \E userId \in UserIds, email \in Emails :
       /\ ~NotInFamily(userId)
       /\ ~NotFamilyAdmin(userId)
       /\ UsersByEmail(email) = {}
       /\ familyCall' = Call("inviteFamilyMember", userId, 0, "returned")
  /\ UNCHANGED <<users, familyGroups>>
  /\ UNCHANGED <<attrVars, mcVars, stressVars, factorVars, callerVars>>
  /\ UNCHANGED <<shockLibrary, oracleVars, cacheVars, debtVars>>

\* removeFamilyMember(userId, memberIdToRemove) by an admin of a family.
RemoveFamilyMember ==
  /\ \E userId \in UserIds, memberIdToRemove \in UserIds :
       /\ ~NotInFamily(userId)
       /\ ~NotFamilyAdmin(userId)
       /\ users' = [users EXCEPT ![memberIdToRemove].familyId = NoFamily,
                                 ![memberIdToRemove].role = "user"]
       /\ familyCall' = Call("removeFamilyMember", userId, memberIdToRemove, "returned")
  /\ UNCHANGED familyGroups
  /\ UNCHANGED <<attrVars, mcVars, stressVars, factorVars, callerVars>>
  /\ UNCHANGED <<shockLibrary, oracleVars, cacheVars, debtVars>>

NextFamily ==
  \/ CreateFamilyGroup
  \/ CallRejected
  \/ InviteExistingUser
  \/ InviteUnknownAddress
  \/ RemoveFamilyMember

SpecFamily == InitFamily /\ [][NextFamily]_vars

----------------------------------------------------------------------------
(* Claims about calculateAttributionMetrics *)

MetricFields ==
  {"sharpeRatio", "sortinoRatio", "alpha", "beta", "informationRatio",
   "maxDrawdown", "calmarRatio", "volatility", "returns"}

Returned == attrPc = "returned"

EqualLength == Len(portfolioReturns) = Len(benchmarkReturns)

\* r is a constant series: all its elements are the same number.
IsConstant(r) == \A j \in 1..Len(r) : r[j] = r[1]

\* C1: a call with an empty portfolioReturns returns a record whose nine
\* fields are all 0, whatever the benchmark and the risk-free rate are.
C1_EmptySeriesAllZero ==
  Returned /\ Len(portfolioReturns) = 0
    => /\ DOMAIN metrics = MetricFields
       /\ \A f \in MetricFields : metrics[f] = Zero

C1_Witness ==
  /\ Returned
  /\ Len(portfolioReturns) = 0
  /\ Len(benchmarkReturns) = 0
  /\ riskFreeRate = Lit(13, 2)

\* C2: for equal-length non-empty series with a constant benchmark the
\* reported beta is exactly 1.
C2_ConstantBenchmarkBetaOne ==
  Returned /\ Len(portfolioReturns) > 0 /\ EqualLength /\ IsConstant(benchmarkReturns)
    => metrics.beta = FromInt(1)

\* C3: for a non-empty constant portfolioReturns the reported sharpeRatio is
\* 0 for every risk-free rate.
C3_ConstantSeriesSharpeZero ==
  Returned /\ Len(portfolioReturns) > 0 /\ EqualLength /\ IsConstant(portfolioReturns)
    => metrics.sharpeRatio = Zero

\* The indices of the strictly negative returns of p.
NegativeIndices(p) == {j \in 1..Len(p) : p[j].k # "nan" /\ p[j].m < 0}

RECURSIVE SumOfNegativeSquares(_, _)
\* The squares of the strictly negative ones among the first k returns of p,
\* added up in the order of the series.
SumOfNegativeSquares(p, k) ==
  IF k = 0 THEN Zero
  ELSE IF k \in NegativeIndices(p)
       THEN FAdd(SumOfNegativeSquares(p, k - 1), FMul(p[k], p[k]))
       ELSE SumOfNegativeSquares(p, k - 1)

\* excessReturn over the root of the mean square of the negative returns,
\* the mean being taken over their number.
SortinoOverDownsideCount(p, rf) ==
  FDiv(ExcessReturn(p, rf),
       MathSqrt(FDiv(SumOfNegativeSquares(p, Len(p)),
                     FromInt(Cardinality(NegativeIndices(p))))))

\* C4: the reported sortinoRatio is 0 when no return is strictly negative,
\* and otherwise excessReturn divided by the root of the mean of the squared
\* negative returns, the mean taken over the number of negative returns.
C4_SortinoDownsideOnly ==
  Returned /\ Len(portfolioReturns) > 0
    => metrics.sortinoRatio =
         IF NegativeIndices(portfolioReturns) = {}
         THEN Zero
         ELSE RoundTo(SortinoOverDownsideCount(portfolioReturns, riskFreeRate), 100)

C4_Witness ==
  /\ Returned
  /\ NegativeIndices(portfolioReturns) # {}
  /\ Cardinality(NegativeIndices(portfolioReturns)) < Len(portfolioReturns)
  /\ \E j \in 1..Len(portfolioReturns) : portfolioReturns[j] = Zero
  /\ metrics.sortinoRatio # Zero

\* The per-period rate of an annual percentage: percent / 100 / 252.
PerPeriodRate(percent) == FDiv(FDiv(percent, FromInt(100)), FromInt(252))

\* C5: the rate subtracted in the Sharpe, Sortino and alpha computations is
\* the annual percentage divided by 100 and then by 252.
C5_RiskFreeRatePerPeriod ==
  Returned /\ Len(portfolioReturns) > 0 /\ EqualLength
    => LET p    == portfolioReturns
           b    == benchmarkReturns
           rate == PerPeriodRate(riskFreeRate)
           excess == FSub(AvgPortfolioReturn(p), rate)
           downsideDeviation == MathSqrt(DownsideVariance(p))
       IN /\ metrics.sharpeRatio =
               RoundTo(IF FGt(Volatility(p), Zero)
                       THEN FDiv(excess, Volatility(p)) ELSE Zero, 100)
          /\ metrics.sortinoRatio =
               RoundTo(IF FGt(downsideDeviation, Zero)
                       THEN FDiv(excess, downsideDeviation) ELSE Zero, 100)
          /\ metrics.alpha =
               RoundTo(FSub(AvgPortfolioReturn(p),
                            FAdd(rate, FMul(Beta(p, b),
                                            FSub(AvgBenchmarkReturn(p, b), rate)))),
                       10000)

\* Every return of p is greater than -1.
AboveMinusOne(p) == \A j \in 1..Len(p) : FGt(p[j], FromInt(-1))

\* C6: when every return is greater than -1, the maximum drawdown is between
\* 0 and 1 as a fraction and between 0 and 100 as reported, and every peak
\* the loop divides by is strictly positive.
C6_DrawdownBound ==
  Returned /\ AboveMinusOne(portfolioReturns)
    => LET p == portfolioReturns
           w == DrawdownWalk(p, Len(p))
       IN /\ FLe(Zero, MaxDrawdown(p)) /\ FLe(MaxDrawdown(p), FromInt(1))
          /\ FLe(Zero, metrics.maxDrawdown) /\ FLe(metrics.maxDrawdown, FromInt(100))
          /\ \A k \in 1..Len(p) : FGt(w[k + 1].peak, Zero)

C6_Witness ==
  /\ Returned
  /\ AboveMinusOne(portfolioReturns)
  /\ Len(portfolioReturns) >= 2
  /\ FGt(metrics.maxDrawdown, Zero)

\* The loop variables when the running peak includes the starting value 1.
PathStart == [peak |-> FromInt(1), maxDrawdown |-> Zero, cumulativeReturn |-> FromInt(1)]

\* C7: the maximum drawdown is the largest decline of the compounded path
\* from its running peak, the starting value 1 included in the peak; a series
\* that starts with a loss has a drawdown of at least that loss.
C7_DrawdownFromStartingValue ==
  Returned /\ Len(portfolioReturns) > 0 /\ EqualLength /\ AboveMinusOne(portfolioReturns)
    => LET p == portfolioReturns
           w == DrawdownWalkFrom(PathStart, p, Len(p))
       IN /\ metrics.maxDrawdown = RoundTo(w[Len(p) + 1].maxDrawdown, 10000)
          /\ FLt(p[1], Zero) => FLe(RoundTo(FNeg(p[1]), 10000), metrics.maxDrawdown)

\* C26: when portfolioReturns and benchmarkReturns are element-wise identical
\* and non-empty, the tracking error is 0 and the reported informationRatio
\* is 0; for a non-constant such series the reported beta is 1 and the
\* reported alpha is 0.
C26_IdenticalSeries ==
  Returned /\ Len(portfolioReturns) > 0 /\ portfolioReturns = benchmarkReturns
    => /\ TrackingError(portfolioReturns, benchmarkReturns) = Zero
       /\ metrics.informationRatio = Zero
       /\ ~IsConstant(portfolioReturns)
            => /\ metrics.beta = FromInt(1)
               /\ metrics.alpha = Zero

\* The series [0.1, 0, 0.1] as portfolio and as benchmark, with the default
\* risk-free rate.
C26_Witness ==
  /\ Returned
  /\ portfolioReturns = <<Lit(1, 10), Zero, Lit(1, 10)>>
  /\ benchmarkReturns = portfolioReturns
  /\ riskFreeRate = Lit(13, 2)
  /\ metrics.beta = FromInt(1)
  /\ metrics.alpha = Zero
  /\ metrics.informationRatio = Zero

----------------------------------------------------------------------------
(* Claims about runMonteCarloSimulation *)

SimulationReturned == mcPc = "returned"

\* a === b on numbers: NaN equals nothing.
NumEq(a, b) == a.k # "nan" /\ a.k # "undefined" /\ a = b

RECURSIVE Compound(_, _, _)
\* v * (1 + rate)^years, one factor a year
Compound(v, rate, years) ==
  IF years = 0 THEN v
  ELSE FMul(Compound(v, rate, years - 1), FAdd(FromInt(1), rate))

\* C8: with volatility 0 every element of the distribution is
\* currentValue * (1 + expectedReturn)^timeHorizon and the five percentiles
\* are equal, whatever Math.random() returned, a draw of 0 included.
C8_ZeroVolatilityDeterministic ==
  SimulationReturned /\ config.volatility = Zero
    => LET d  == outcome.distribution
           ci == outcome.confidenceIntervals
           v  == Compound(config.currentPortfolioValue, config.expectedReturn,
                          config.timeHorizon)
       IN /\ Len(d) = config.simulations
          /\ \A j \in 1..Len(d) : NumEq(d[j], v)
          /\ NumEq(ci.p5, ci.p25) /\ NumEq(ci.p25, ci.p50)
          /\ NumEq(ci.p50, ci.p75) /\ NumEq(ci.p75, ci.p95)

\* C9: with timeHorizon 0 no random sample is drawn and every element of
\* the distribution, every percentile and every scenario value is
\* currentValue.
C9_ZeroHorizonCurrentValue ==
  SimulationReturned /\ config.timeHorizon = 0
    => LET d  == outcome.distribution
           ci == outcome.confidenceIntervals
           v  == config.currentPortfolioValue
       IN /\ randomCalls = 0
          /\ Len(d) = config.simulations
          /\ \A j \in 1..Len(d) : NumEq(d[j], v)
          /\ \A f \in {"p5", "p25", "p50", "p75", "p95"} : NumEq(ci[f], v)
          /\ \A j \in 1..Len(outcome.scenarios) :
               \A f \in {"expectedValue", "worstCase", "bestCase", "median"} :
                 NumEq(outcome.scenarios[j][f], v)

C9_Witness ==
  /\ SimulationReturned
  /\ config.timeHorizon = 0
  /\ config.volatility # Zero
  /\ config.simulations >= 2
  /\ Len(outcome.scenarios) = 5

\* C10: the percentiles are monotone, p5 <= p25 <= p50 <= p75 <= p95, each
\* is the element of the sorted distribution at index
\* floor(simulations * p), and that index is inside the distribution.
C10_MonotonePercentiles ==
  SimulationReturned
    => LET d  == outcome.distribution
           ci == outcome.confidenceIntervals
           n  == config.simulations
       IN /\ \A q \in {5, 25, 50, 75, 95} : PercentileIndex(n, q) \in 0..(Len(d) - 1)
          /\ ci.p5 = d[PercentileIndex(n, 5) + 1]
          /\ ci.p25 = d[PercentileIndex(n, 25) + 1]
          /\ ci.p50 = d[PercentileIndex(n, 50) + 1]
          /\ ci.p75 = d[PercentileIndex(n, 75) + 1]
          /\ ci.p95 = d[PercentileIndex(n, 95) + 1]
          /\ FLe(ci.p5, ci.p25) /\ FLe(ci.p25, ci.p50)
          /\ FLe(ci.p50, ci.p75) /\ FLe(ci.p75, ci.p95)

\* C11: the distribution has one element per trial, simulations elements in
\* all, and is in ascending numeric order: no element is greater than, or
\* incomparable with, the element after it.
C11_DistributionSortedFullLength ==
  SimulationReturned
    => LET d == outcome.distribution
       IN /\ Len(d) = config.simulations
          /\ i = config.simulations
          /\ \A j \in 1..(Len(d) - 1) : FLe(d[j], d[j + 1])

----------------------------------------------------------------------------
(* Claims about runStressTests *)

StressReturned == stressPc = "returned"

\* The shock vectors of the four scenarios derived from the allocation, in
\* the order of the returned array.
Shocks ==
  <<FinancialCrisisChanges, CovidCrashChanges, DotComBubbleChanges, InflationSpikeChanges>>

RECURSIVE SumWeights(_, _)
\* The sum of the weights of the first k categories.
SumWeights(allocation, k) ==
  IF k = 0 THEN Zero
  ELSE FAdd(SumWeights(allocation, k - 1), allocation[Categories[k]])

RECURSIVE WeightedShockSum(_, _, _, _)
\* The sum over the first k categories of (weight / total) * shock.
WeightedShockSum(allocation, shock, total, k) ==
  IF k = 0 THEN Zero
  ELSE FAdd(WeightedShockSum(allocation, shock, total, k - 1),
            FMul(FDiv(allocation[Categories[k]], total), shock[Categories[k]]))

\* The allocation is entirely in stocks.
AllInStocks ==
  /\ assetAllocation.stocks # Zero
  /\ \A c \in {"bonds", "gold", "cash", "alternatives"} : assetAllocation[c] = Zero

\* C12: when the five weights do not sum to 0, the portfolioImpact of each
\* allocation-derived scenario is the weighted sum of its shocks, the weights
\* being allocation / total, rounded to 2 decimals; an allocation entirely
\* in stocks yields the stock shock, -50 for the 2008 vector, and then an
\* estimatedValue of half the current value.
C12_WeightedImpact ==
  StressReturned /\ SumWeights(assetAllocation, 5) # Zero
    => LET total == SumWeights(assetAllocation, 5)
       IN /\ Len(scenarios) = 5
          /\ \A s \in 1..4 :
               scenarios[s].portfolioImpact =
                 RoundTo(WeightedShockSum(assetAllocation, Shocks[s], total, 5), 100)
          /\ AllInStocks
               => /\ \A s \in 1..4 : scenarios[s].portfolioImpact = Shocks[s].stocks
                  /\ scenarios[1].portfolioImpact = FromInt(-50)
                  /\ scenarios[1].estimatedValue =
                       MathRound(FDiv(currentPortfolioValue, FromInt(2)))

C12_Witness ==
  /\ StressReturned
  /\ assetAllocation.stocks = FromInt(100)
  /\ AllInStocks
  /\ currentPortfolioValue = FromInt(1000)
  /\ scenarios[1].portfolioImpact = FromInt(-50)
  /\ scenarios[1].estimatedValue = FromInt(500)

\* All five weights are 0.
ZeroAllocation == \A c \in DOMAIN assetAllocation : assetAllocation[c] = Zero

\* C13: when all five weights are 0, every result of the returned array has
\* portfolioImpact 0 and estimatedValue round(currentValue).
C13_ZeroAllocationAllZero ==
  StressReturned /\ ZeroAllocation
    => \A s \in 1..Len(scenarios) :
         /\ scenarios[s].portfolioImpact = Zero
         /\ scenarios[s].estimatedValue = MathRound(currentPortfolioValue)

\* C13, amended: when all five weights are 0, the four allocation-derived
\* results have portfolioImpact 0 and estimatedValue round(currentValue);
\* the fifth, "Currency Crisis", has portfolioImpact -15 and estimatedValue
\* round(currentValue * (1 - 15 / 100)).
C13_ZeroAllocationDerivedZero ==
  StressReturned /\ ZeroAllocation
    => /\ Len(scenarios) = 5
       /\ \A s \in 1..4 :
            /\ scenarios[s].portfolioImpact = Zero
            /\ scenarios[s].estimatedValue = MathRound(currentPortfolioValue)
       /\ scenarios[5].scenario = "Currency Crisis"
       /\ scenarios[5].portfolioImpact = FromInt(-15)
       /\ scenarios[5].estimatedValue =
            MathRound(FMul(currentPortfolioValue,
                           FSub(FromInt(1), FDiv(FromInt(15), FromInt(100)))))

C13_Witness ==
  /\ StressReturned
  /\ ZeroAllocation
  /\ currentPortfolioValue = FromInt(1000)
  /\ scenarios[1].estimatedValue = FromInt(1000)
  /\ scenarios[5].estimatedValue = FromInt(850)

\* C14: every returned result, the hardcoded one included, has
\* estimatedValue = round(currentValue * (1 + portfolioImpact / 100)) for
\* its own portfolioImpact; the 0 the array literal puts there is returned
\* only where the formula gives 0.
C14_EstimatedValueFromImpact ==
  StressReturned
    => /\ Len(scenarios) = 5
       /\ \A s \in 1..Len(scenarios) :
            LET impact == scenarios[s].portfolioImpact
                byFormula ==
                  MathRound(FMul(currentPortfolioValue,
                                 FAdd(FromInt(1), FDiv(impact, FromInt(100)))))
            IN /\ scenarios[s].estimatedValue = byFormula
               /\ scenarios[s].estimatedValue = Zero => byFormula = Zero
       /\ currentPortfolioValue = FromInt(1000)
            => scenarios[5].estimatedValue = FromInt(850)

C14_Witness ==
  /\ StressReturned
  /\ currentPortfolioValue = FromInt(1000)
  /\ assetAllocation.stocks = FromInt(20)
  /\ assetAllocation.gold = FromInt(100)
  /\ scenarios[5].portfolioImpact = FromInt(-15)
  /\ scenarios[5].estimatedValue = FromInt(850)
  /\ \A s \in 1..4 : scenarios[s].estimatedValue # Zero

----------------------------------------------------------------------------
(* Claims about the four engines together *)

FactorsReturned == factorPc = "returned"

\* C15: on degenerate input each of the four functions returns its record
\* with the documented default in place of the undefined quantity: all-zero
\* metrics
\* for an empty series, sharpeRatio 0 and volatility 0 for a series of zero
\* variance, beta 1 for a benchmark of zero variance, currentValue for a
\* zero horizon, impact 0 for a zero allocation total, and the five factor
\* rows for empty arrays.
C15_TotalWithDefaults ==
  /\ Returned /\ EqualLength
       => /\ DOMAIN metrics = MetricFields
          /\ Len(portfolioReturns) = 0 => \A f \in MetricFields : metrics[f] = Zero
          /\ Len(portfolioReturns) > 0 /\ IsConstant(portfolioReturns)
               => metrics.sharpeRatio = Zero /\ metrics.volatility = Zero
          /\ Len(portfolioReturns) > 0 /\ IsConstant(benchmarkReturns)
               => metrics.beta = FromInt(1)
  /\ SimulationReturned /\ config.timeHorizon = 0
       => \A j \in 1..Len(outcome.distribution) :
            NumEq(outcome.distribution[j], config.currentPortfolioValue)
  /\ StressReturned /\ SumWeights(assetAllocation, 5) = Zero
       => \A s \in 1..4 : scenarios[s].portfolioImpact = Zero
  /\ FactorsReturned /\ Len(portfolioReturns) = 0 => Len(factors) = 5

\* C16: a call of calculateAttributionMetrics whose two series differ in
\* length returns no metrics: no result is computed from a truncated series
\* or from benchmark elements that are missing.
C16_MismatchedLengthsRejected ==
  Len(portfolioReturns) # Len(benchmarkReturns) => ~Returned

----------------------------------------------------------------------------
(* Claims about performFactorAnalysis *)

\* C17: whatever portfolioReturns and factorReturns are, empty arrays
\* included, the call returns the five rows Market Beta 65, Size 10,
\* Value 15, Momentum 5, Alpha 5, in this order; the contributions sum to
\* 100.
C17_FixedFactorRows ==
  FactorsReturned
    => /\ Len(factors) = 5
       /\ [j \in 1..5 |-> factors[j].factor] =
            <<"Market Beta", "Size Factor", "Value Factor", "Momentum Factor",
              "Alpha (Stock Selection)">>
       /\ [j \in 1..5 |-> factors[j].contribution] = <<65, 10, 15, 5, 5>>
       /\ factors[1].contribution + factors[2].contribution + factors[3].contribution
            + factors[4].contribution + factors[5].contribution = 100

C17_Witness ==
  /\ FactorsReturned
  /\ portfolioReturns = << >>
  /\ factorReturns = NoFactorReturns
  /\ Len(factors) = 5

----------------------------------------------------------------------------
(* Claims about the scenarios and the trials of runMonteCarloSimulation *)

\* x is the minimum of the numbers of d.
IsMinimum(x, d) ==
  /\ \E j \in 1..Len(d) : d[j] = x
  /\ \A j \in 1..Len(d) : FLe(x, d[j])

\* x is the maximum of the numbers of d.
IsMaximum(x, d) ==
  /\ \E j \in 1..Len(d) : d[j] = x
  /\ \A j \in 1..Len(d) : FLe(d[j], x)

\* C18: the call returns five scenario rows, bear, recession, base, bull,
\* euphoria in this order, with the probabilities 5, 15, 60, 15, 5 (100 in
\* all) and the expectedValues p5, p25, p50, p75, p95; every row has the
\* minimum of the whole distribution as worstCase, its maximum as bestCase
\* and p50 as median.
C18_FiveScenarioRows ==
  SimulationReturned
    => LET d  == outcome.distribution
           ci == outcome.confidenceIntervals
           s  == outcome.scenarios
       IN /\ Len(s) = 5
          /\ [j \in 1..5 |-> s[j].scenario] =
               <<"Bear Market (-30% crash)", "Recession (-15%)",
                 "Base Case (Expected Return)", "Bull Market (+20%)", "Euphoria (+40%)">>
          /\ [j \in 1..5 |-> s[j].probability] = <<5, 15, 60, 15, 5>>
          /\ s[1].probability + s[2].probability + s[3].probability
               + s[4].probability + s[5].probability = 100
          /\ [j \in 1..5 |-> s[j].expectedValue] = <<ci.p5, ci.p25, ci.p50, ci.p75, ci.p95>>
          /\ \A j \in 1..5 :
               /\ IsMinimum(s[j].worstCase, d)
               /\ IsMaximum(s[j].bestCase, d)
               /\ s[j].median = ci.p50

\* The second of two calls with the same arguments has returned.
SecondCallReturned == SimulationReturned /\ firstOutcome # NoOutcome

\* C19: two runs with the same configuration (the caller supplying the same
\* generator and seed to both) return the same distribution, the same
\* confidence intervals and the same scenarios.
C19_SameConfigurationSameOutcome ==
  SecondCallReturned
    => /\ outcome.distribution = firstOutcome.distribution
       /\ outcome.confidenceIntervals = firstOutcome.confidenceIntervals
       /\ outcome.scenarios = firstOutcome.scenarios

\* The terminal values of the trials, pushed in the order f of the trials.
InOrder(terminal, f) == [j \in 1..Len(terminal) |-> terminal[f[j]]]

\* A trial starts from the configuration alone, whatever the trials before
\* it left in value and results.
TrialStartsFromConfig ==
  mcPc = "trials" /\ mcPc' = "years"
    => value' = config.currentPortfolioValue /\ year' = 0 /\ results' = results

\* A year of a trial changes value by the configuration and two draws of
\* its own, and nothing another trial reads.
YearUsesOwnDraws ==
  mcPc = "years" /\ year' = year + 1
    => /\ \E u1 \in UniformDraws, u2 \in UniformDraws :
            value' = FMul(value, FAdd(FromInt(1),
                       generateNormalRandom(config.expectedReturn, config.volatility, u1, u2)))
       /\ results' = results
       /\ config' = config

\* The end of a trial adds its terminal value and leaves those of the other
\* trials as they are.
TrialAddsOwnValue ==
  mcPc = "years" /\ mcPc' = "trials"
    => results' = Append(results, value) /\ config' = config

\* Whatever order the trials were executed in, the same sorted distribution
\* and the same confidence intervals are returned.
AnyTrialOrderSameOutcome ==
  mcPc = "trials" /\ mcPc' = "returned"
    => \A f \in Permutations(1..Len(results)) :
         \A sorted \in SortOutcomes(InOrder(results, f)) :
           /\ sorted = outcome'.distribution
           /\ Outcome(sorted, config.simulations).confidenceIntervals
                = outcome'.confidenceIntervals

\* C20: the trials share no mutable state but the configuration: a trial's
\* terminal value depends only on the configuration and on its own draws,
\* and executing the trials in any order, each with its own draws, yields
\* the same sorted distribution and the same confidence intervals.
C20_TrialsIndependent ==
  [][/\ TrialStartsFromConfig
     /\ YearUsesOwnDraws
     /\ TrialAddsOwnValue
     /\ AnyTrialOrderSameOutcome]_vars

----------------------------------------------------------------------------
(* Claims about analyzeStock *)

AnalyzeReturned == oraclePc = "returned"

\* 0 <= x <= 10
WithinTen(x) == x.k = "fin" /\ FGe(x, Zero) /\ FLe(x, FromInt(10))

\* Twice a lens score, as an integer: the scores are multiples of 0.5.
HalfPoints(x) == FloorInt(FMul(x, FromInt(2)))

RECURSIVE SumHalfPoints(_, _)
\* Twice the sum of the first k lens scores.
SumHalfPoints(scores, k) ==
  IF k = 0 THEN 0 ELSE SumHalfPoints(scores, k - 1) + HalfPoints(scores[k])

\* finalScore is tenths/10 and tenths is the mean of the eight scores times
\* ten, rounded to the nearest integer (a tie upwards); the mean is
\* SumHalfPoints/16.
IsRoundedMean(finalScore, scores) ==
  \E tenths \in 0..100 :
    /\ finalScore = Lit(tenths, 10)
    /\ 16 * tenths - 8 <= 10 * SumHalfPoints(scores, Len(scores))
    /\ 10 * SumHalfPoints(scores, Len(scores)) < 16 * tenths + 8

\* C21: for every StockData input each of the eight lens scores analyzeStock
\* returns lies in [0, 10], and the reported finalScore, their arithmetic
\* mean rounded to one decimal, lies in [0, 10] too.
C21_ScoresWithinTen ==
  AnalyzeReturned =>
    /\ \A n \in 1..Len(Lenses) : WithinTen(analysis.lensScores[Lenses[n]].score)
    /\ WithinTen(analysis.finalScore)
    /\ IsRoundedMean(analysis.finalScore, ScoresOf(analysis.lensScores))

\* A stock that meets every test of the Graham lens (5 + 2 + 1 + 2 + 1 = 11
\* points) is reported with the score 10.
C21_Witness ==
  /\ AnalyzeReturned
  /\ FLt(stockData.pb, FromInt(1))
  /\ FLt(stockData.pe, FromInt(15))
  /\ stockData.price = FromInt(100)
  /\ FLt(stockData.debtToEquity, Lit(1, 2))
  /\ analysis.lensScores.graham.score = FromInt(10)

\* x is an integer.
IsInteger(x) == x.k = "fin" /\ (x.e >= 0 \/ x.m % (2^(-x.e)) = 0)

RECURSIVE SumSquaredHalfPoints(_, _)
\* Four times the sum of the squares of the first k lens scores.
SumSquaredHalfPoints(scores, k) ==
  IF k = 0 THEN 0
  ELSE SumSquaredHalfPoints(scores, k - 1) + HalfPoints(scores[k]) * HalfPoints(scores[k])

\* 256 times the population variance of the scores: with h the scores in
\* half points and n their number (8), the variance is
\* (n * sum(h^2) - sum(h)^2) / (4 * n^2).
Variance256(scores) ==
  Len(scores) * SumSquaredHalfPoints(scores, Len(scores))
    - SumHalfPoints(scores, Len(scores)) * SumHalfPoints(scores, Len(scores))

\* c = round(max(60, min(95, 100 - 10 * sd))) for the standard deviation
\* sd = sqrt(q)/16, in integers.  The numbers of the model carry Prec bits,
\* which resolves 100 - 10 * sd to 1/64 or better, so the comparison leaves
\* 1/32 at either end: above 60, c - 0.5 - 1/32 <= 100 - 10 * sd, i.e.
\* 400 * q <= (3217 - 32c)^2; below 95, 100 - 10 * sd < c + 0.5 + 1/32, i.e.
\* 400 * q > (3183 - 32c)^2.
IsClampedConfidence(c, q) ==
  /\ c \in 60..95
  /\ c > 60 => 400 * q <= (3217 - 32 * c) * (3217 - 32 * c)
  /\ c < 95 => 400 * q > (3183 - 32 * c) * (3183 - 32 * c)

\* C22: for every StockData input the confidence analyzeStock returns is an
\* integer in [60, 95], namely 100 minus ten times the population standard
\* deviation of the eight lens scores, clamped to that range and rounded.
C22_ConfidenceClampedRounded ==
  AnalyzeReturned =>
    /\ IsInteger(analysis.confidence)
    /\ IsClampedConfidence(FloorInt(analysis.confidence),
                           Variance256(ScoresOf(analysis.lensScores)))

\* Lens scores that disagree enough for a confidence strictly between the
\* limits and below 85.
C22_Witness ==
  /\ AnalyzeReturned
  /\ FLt(analysis.confidence, FromInt(85))
  /\ FGt(analysis.confidence, FromInt(60))

\* The band of a score under the thresholds 8, 6.5, 4.5 and 3.
BandOf(x) ==
  IF FGe(x, FromInt(8)) THEN "STRONG_BUY"
  ELSE IF FGe(x, Lit(65, 10)) THEN "BUY"
  ELSE IF FGe(x, Lit(45, 10)) THEN "HOLD"
  ELSE IF FGe(x, FromInt(3)) THEN "SELL"
  ELSE "STRONG_SELL"

\* C27: the recommendation analyzeStock returns, chosen from the unrounded
\* mean of the lens scores, agrees with the thresholds 8, 6.5, 4.5 and 3
\* applied to the reported finalScore (the mean rounded to one decimal), for
\* every combination of lens scores that are multiples of 0.5 in [0, 10].
C27_RecommendationMatchesReportedScore ==
  AnalyzeReturned =>
    /\ IsRoundedMean(analysis.finalScore, ScoresOf(lensScores))
    /\ analysis.recommendation = BandOf(analysis.finalScore)

\* The mean 7.9375 (scores adding up to 63.5), the largest mean below 8, is
\* reported as 7.9 with the recommendation BUY.
C27_Witness ==
  /\ AnalyzeReturned
  /\ SumHalfPoints(ScoresOf(lensScores), Len(Lenses)) = 127
  /\ analysis.finalScore = Lit(79, 10)
  /\ analysis.recommendation = "BUY"

\* The whole allocation is in gold.
AllInGold ==
  /\ assetAllocation.gold # Zero
  /\ \A c \in {"stocks", "bonds", "cash", "alternatives"} : assetAllocation[c] = Zero

\* C24: the scenario named Currency Crisis always has portfolioImpact -15
\* and estimatedValue round(currentValue * 0.85), for every allocation; the
\* other four scenarios are the ones whose impact depends on the allocation:
\* all in stocks they show the stock shock, all in gold the gold shock.
C24_CurrencyCrisisFixed ==
  StressReturned =>
    /\ Len(scenarios) = 5
    /\ \A s \in 1..5 : scenarios[s].scenario = "Currency Crisis" <=> s = 5
    /\ scenarios[5].portfolioImpact = FromInt(-15)
    /\ scenarios[5].estimatedValue = MathRound(FMul(currentPortfolioValue, Lit(85, 100)))
    /\ AllInStocks => \A s \in 1..4 : scenarios[s].portfolioImpact = Shocks[s].stocks
    /\ AllInGold => \A s \in 1..4 : scenarios[s].portfolioImpact = Shocks[s].gold

\* An allocation entirely in gold: gains of 25, 15, 10 and 30 percent in the
\* four derived scenarios, and -15 percent in Currency Crisis.
C24_Witness ==
  /\ StressReturned
  /\ AllInGold
  /\ currentPortfolioValue = FromInt(1000)
  /\ scenarios[1].portfolioImpact = FromInt(25)
  /\ scenarios[4].portfolioImpact = FromInt(30)
  /\ scenarios[5].scenario = "Currency Crisis"
  /\ scenarios[5].portfolioImpact = FromInt(-15)
  /\ scenarios[5].estimatedValue = FromInt(850)

----------------------------------------------------------------------------
(* Claims about the callers of runStressTests *)

\* C23: runStressTests evaluates the shock-vector library its caller hands
\* to it: it returns exactly one result per shock vector of that library,
\* in library order, each carrying that vector's name.
C23_OneResultPerLibraryVector ==
  StressReturned =>
    /\ Len(scenarios) = Len(shockLibrary)
    /\ \A j \in 1..Len(shockLibrary) : scenarios[j].scenario = shockLibrary[j].name

\* Factors a caller multiplies its weights by.
ScaleFactors == {Lit(1, 100), FromInt(2)}

\* The allocation with every weight multiplied by factor.
Scaled(allocation, factor) == [c \in DOMAIN allocation |-> FMul(allocation[c], factor)]

\* C25: stress-test impacts depend only on the proportions of the
\* allocation: multiplying all five weights by the same positive factor
\* leaves every scenario's portfolioImpact and estimatedValue unchanged.
C25_ScaleInvariant ==
  StressReturned =>
    \A factor \in ScaleFactors :
      \A j \in 1..Len(scenarios) :
        LET rescaled == InitialScenarios(Scaled(assetAllocation, factor))[j]
        IN /\ rescaled.portfolioImpact = scenarios[j].portfolioImpact
           /\ EstimatedValue(currentPortfolioValue, rescaled.portfolioImpact)
                = scenarios[j].estimatedValue

----------------------------------------------------------------------------
(* Claims about oracle.getAnalysis *)

\* C28: for a ticker and a market oracle.getAnalysis returns the same
\* finalScore and the same eight lens scores when it serves the stored
\* analysis as the call that computed and stored that analysis returned.
C28_CachedAnalysisSameScores ==
  \A first \in 1..Len(responses) :
    \A later \in 1..Len(responses) :
      /\ responses[first].served = "computed"
      /\ responses[later].served = "cache"
      /\ responses[later].row = responses[first].row
      => /\ responses[later].analysis.finalScore = responses[first].analysis.finalScore
         /\ \A n \in 1..Len(Lenses) :
              responses[later].analysis.lensScores[Lenses[n]].score
                = responses[first].analysis.lensScores[Lenses[n]].score

----------------------------------------------------------------------------
(* Claims about getDebtPayoffProjection *)

\* The projection of the liability whose callback returned last.
LastProjection == projections[Len(projections)]

\* The callback has returned for a liability and has not been called for
\* the next: balance, if the loop ran, is what the loop left.
CallbackReturned == debtPc \in {"mapping", "returned"} /\ Len(projections) > 0

\* The monthly payment of the liability is 0 or does not exceed the
\* interest on its current balance.
PaymentWithinInterest(liability) ==
  \/ MonthlyPaymentOf(liability) = Zero
  \/ FLe(MonthlyPaymentOf(liability), InterestPayment(liability, liability.currentBalance))

\* C29: the amortization loop ends after at most 360 iterations and reports
\* monthsToPayoff in 0..360; it reports 0 months and the payoffDate N/A when
\* the monthly payment is 0 or does not exceed the interest on the current
\* balance; and whenever it reports a positive monthsToPayoff the balance
\* left after that many payments is <= 0.
C29_PayoffWithinCap ==
  /\ months \in 0..maxMonths
  /\ CallbackReturned =>
       /\ LastProjection.monthsToPayoff \in 0..maxMonths
       /\ PaymentWithinInterest(userLiabilities[Len(projections)])
            => /\ LastProjection.monthsToPayoff = 0
               /\ LastProjection.payoffDate = PayoffDate(0)
       /\ LastProjection.monthsToPayoff > 0 => FLe(balance, Zero)

----------------------------------------------------------------------------
(* Claims about the family groups *)

\* The step is a call of removeFamilyMember that changes a row of users.
RemovalChanges(u) ==
  /\ familyCall'.op = "removeFamilyMember"
  /\ users'[u] # users[u]

\* C30: whatever calls of createFamilyGroup, inviteFamilyMember and
\* removeFamilyMember came before, removeFamilyMember only changes a user who
\* belongs to the caller's own family group, and only for a caller who is
\* family_admin or admin: no user of another family or of no family has
\* familyId and role reset.
C30_RemoveOnlyOwnFamily ==
  [][\A u \in UserIds :
       RemovalChanges(u)
         => /\ users[familyCall'.userId].role \in {"family_admin", "admin"}
            /\ users[familyCall'.userId].familyId # NoFamily
            /\ users[u].familyId = users[familyCall'.userId].familyId]_vars

=============================================================================
